---- MODULE Spec2Model ----
(***************************************************************************)
(* A model of the Streamable HTTP transport of mcp-memory                  *)
(* (src/src/streamable-http.ts, class StreamableHttpHandler) and of the    *)
(* SessionManager Durable Object it talks to (src/unnamed/part_001).       *)
(*                                                                         *)
(* One HTTP request is in flight at a time and moves through the await     *)
(* points of handleRequest; the Session Store calls of other clients, the  *)
(* expiry sweep and the clock interleave with it.                          *)
(***************************************************************************)
EXTENDS Integers, Sequences, FiniteSets, TLC

----------------------------------------------------------------------------
(* Bounds of the model *)

\* how many session identifiers uuidv4() hands out
MaxMint == 2
\* how many times the clock advances
MaxTicks == 2
\* how many memories the tool backend accepts
MaxMemories == 1
\* how many calls one SessionManager has in flight at a time
MaxCalls == 2

----------------------------------------------------------------------------
(* JavaScript values, as far as the handler looks at them *)

Undefined == [t |-> "undefined", n |-> 0, s |-> "", b |-> FALSE]
Null == [t |-> "null", n |-> 0, s |-> "", b |-> FALSE]
Num(k) == [t |-> "number", n |-> k, s |-> "", b |-> FALSE]
Str(x) == [t |-> "string", n |-> 0, s |-> x, b |-> FALSE]
Bool(x) == [t |-> "boolean", n |-> 0, s |-> "", b |-> x]
\* an object or an array whose members the handler never reads
Obj == [t |-> "object", n |-> 0, s |-> "", b |-> FALSE]

\* ToBoolean: what `if (v)`, `!v`, `v && ..` and `v || ..` look at
Truthy(v) ==
    CASE v.t = "undefined" -> FALSE
      [] v.t = "null" -> FALSE
      [] v.t = "number" -> v.n # 0
      [] v.t = "string" -> v.s # ""
      [] v.t = "boolean" -> v.b
      [] OTHER -> TRUE

\* v || w
OrElse(v, w) == IF Truthy(v) THEN v ELSE w

\* the typeof operator
TypeOf(v) == IF v.t = "null" THEN "object" ELSE v.t

\* String(v) and `${v}`, for the values a tool name takes
JsString(v) ==
    CASE v.t = "string" -> v.s
      [] v.t = "undefined" -> "undefined"
      [] v.t = "null" -> "null"
      [] v.t = "boolean" -> IF v.b THEN "true" ELSE "false"
      [] v.t = "number" -> IF v.n = 0 THEN "0" ELSE "7"
      [] OTHER -> "[object Object]"

----------------------------------------------------------------------------
(* Request bodies *)

\* the arguments member of params
NoArgs == [t |-> "undefined", thingToRemember |-> Undefined, informationToGet |-> Undefined]
ArgsSet ==
    { NoArgs,
      [t |-> "object", thingToRemember |-> Undefined, informationToGet |-> Undefined],
      [t |-> "object", thingToRemember |-> Str("m"), informationToGet |-> Undefined],
      [t |-> "object", thingToRemember |-> Undefined, informationToGet |-> Str("m")] }

\* params: absent, null, a primitive, or an object with name and arguments
NoParams == [t |-> "undefined", name |-> Undefined, args |-> NoArgs]
ToolNames == { Undefined, Str("addToMCPMemory"), Str("searchMCPMemory"), Str("bogusTool") }
ParamsSet ==
    { NoParams,
      [t |-> "null", name |-> Undefined, args |-> NoArgs],
      [t |-> "number", name |-> Undefined, args |-> NoArgs] }
    \cup { [t |-> "object", name |-> nm, args |-> a] : nm \in ToolNames, a \in ArgsSet }

JsonRpcTags == { Undefined, Str("2.0"), Str("1.0") }
Methods ==
    { Undefined, Num(7), Str(""), Str("initialize"), Str("tools/list"),
      Str("tools/call"), Str("resources/list") }
Ids == { Undefined, Null, Str(""), Str("a"), Num(0), Num(7), Bool(TRUE) }

\* what request.json() yields: a syntax error, or the parsed value `top` with
\* the members the handler reads (undefined on anything but an object)
MalformedBody ==
    [syntax |-> "malformed", top |-> Undefined, jsonrpc |-> Undefined,
     method |-> Undefined, id |-> Undefined, params |-> NoParams]
Primitive(v) ==
    [syntax |-> "json", top |-> v, jsonrpc |-> Undefined,
     method |-> Undefined, id |-> Undefined, params |-> NoParams]
ObjectBodies ==
    { [syntax |-> "json", top |-> Obj, jsonrpc |-> j, method |-> m, id |-> i, params |-> p] :
         j \in JsonRpcTags, m \in Methods, i \in Ids, p \in ParamsSet }
\* params matter to tools/call alone
Bodies ==
    { MalformedBody }
    \cup { Primitive(v) : v \in { Null, Bool(FALSE), Bool(TRUE), Num(0), Num(7), Str(""), Str("a") } }
    \cup { b \in ObjectBodies : b.method # Str("tools/call") => b.params = NoParams }

\* reading a member of the parsed body: a TypeError on null
ReadThrows(body) == body.top.t \in { "null", "undefined" }

\* the Accept header of a POST
Accepts ==
    { "", "application/json", "text/event-stream", "application/json, text/event-stream",
      "text/html" }
\* acceptHeader.includes(type)
Includes(accept, type) ==
    \/ accept = type
    \/ accept = "application/json, text/event-stream"
         /\ type \in { "application/json", "text/event-stream" }

----------------------------------------------------------------------------
(* The Request Classifier *)

\* isValidJsonRpc with the check of the identifier's type left out
isValidJsonRpc_NoIdCheck(body) ==
    /\ Truthy(body.top)
    /\ body.jsonrpc = Str("2.0")
    /\ TypeOf(body.method) = "string"

\* isValidJsonRpc: `body && ...` is the falsy body itself when body is falsy
isValidJsonRpc(body) ==
    /\ Truthy(body.top)
    /\ body.jsonrpc = Str("2.0")
    /\ TypeOf(body.method) = "string"
    /\ \/ body.id = Undefined
       \/ TypeOf(body.id) = "string"
       \/ TypeOf(body.id) = "number"
       \/ body.id = Null

----------------------------------------------------------------------------
(* JSON-RPC envelopes *)

NoResult == [kind |-> "none", tools |-> {}, text |-> <<>>, isError |-> FALSE]
NoError == [code |-> 0, message |-> <<>>, data |-> ""]
\* the literal { code, message } and { code, message, data }
RpcError(code, message) == [code |-> code, message |-> message, data |-> ""]
RpcErrorData(code, message, data) == [code |-> code, message |-> message, data |-> data]

\* JsonRpcResponse; a member left out, or undefined, is not serialised
ResultEnvelope(result, id) ==
    [hasResult |-> result.kind # "none", result |-> result,
     hasError |-> FALSE, error |-> NoError, id |-> id]
ErrorEnvelope(error, id) ==
    [hasResult |-> FALSE, result |-> NoResult,
     hasError |-> TRUE, error |-> error, id |-> id]
NoEnvelope ==
    [hasResult |-> FALSE, result |-> NoResult,
     hasError |-> FALSE, error |-> NoError, id |-> Undefined]

\* ToolResult: content [{ type: "text", text }] and the isError flag
ToolResult(text, isError) ==
    [kind |-> "toolResult", tools |-> {}, text |-> text, isError |-> isError]

----------------------------------------------------------------------------
(* The tool backend: storeMemory, storeMemoryInD1, searchMemories *)

BackendOutcomes ==
    [vector : { "ok", "throws" }, d1 : { "ok", "throws" }, search : { "hits", "none", "throws" }]

\* what a handler did: whether it threw, what it returned, the functions it
\* entered in order, the backend writes that went through, and whether a
\* backend call threw
Did(threw, val, calls, vec, rec, failed) ==
    [threw |-> threw, val |-> val, calls |-> calls, vec |-> vec, rec |-> rec,
     failed |-> failed]

\* addToMCPMemory whose catch returns nothing
addToMCPMemory_NoResultOnFailure(thingToRemember, be) ==
    IF be.vector = "throws"
    THEN Did(FALSE, NoResult, <<"addToMCPMemory", "storeMemory">>, FALSE, FALSE, TRUE)
    ELSE IF be.d1 = "throws"
    THEN Did(FALSE, NoResult,
             <<"addToMCPMemory", "storeMemory", "storeMemoryInD1">>, TRUE, FALSE, TRUE)
    ELSE Did(FALSE, ToolResult(<<"Remembered: ", JsString(thingToRemember)>>, FALSE),
             <<"addToMCPMemory", "storeMemory", "storeMemoryInD1">>, TRUE, TRUE, FALSE)

\* addToMCPMemory without its try/catch: a backend failure is thrown on
addToMCPMemory_NoCatch(thingToRemember, be) ==
    IF be.vector = "throws"
    THEN Did(TRUE, NoResult, <<"addToMCPMemory", "storeMemory">>, FALSE, FALSE, TRUE)
    ELSE IF be.d1 = "throws"
    THEN Did(TRUE, NoResult,
             <<"addToMCPMemory", "storeMemory", "storeMemoryInD1">>, TRUE, FALSE, TRUE)
    ELSE Did(FALSE, ToolResult(<<"Remembered: ", JsString(thingToRemember)>>, FALSE),
             <<"addToMCPMemory", "storeMemory", "storeMemoryInD1">>, TRUE, TRUE, FALSE)

\* addToMCPMemory that takes the vector back when the record write fails
addToMCPMemory_RollsBack(thingToRemember, be) ==
    IF be.vector = "throws"
    THEN Did(FALSE, ToolResult(<<"Failed to remember: ", "Error">>, TRUE),
             <<"addToMCPMemory", "storeMemory">>, FALSE, FALSE, TRUE)
    ELSE IF be.d1 = "throws"
    THEN Did(FALSE, ToolResult(<<"Failed to remember: ", "Error">>, TRUE),
             <<"addToMCPMemory", "storeMemory", "storeMemoryInD1">>, FALSE, FALSE, TRUE)
    ELSE Did(FALSE, ToolResult(<<"Remembered: ", JsString(thingToRemember)>>, FALSE),
             <<"addToMCPMemory", "storeMemory", "storeMemoryInD1">>, TRUE, TRUE, FALSE)

\* addToMCPMemory: both writes inside one try, the record write second
addToMCPMemory(thingToRemember, be) ==
    IF be.vector = "throws"
    THEN Did(FALSE, ToolResult(<<"Failed to remember: ", "Error">>, TRUE),
             <<"addToMCPMemory", "storeMemory">>, FALSE, FALSE, TRUE)
    ELSE IF be.d1 = "throws"
    THEN Did(FALSE, ToolResult(<<"Failed to remember: ", "Error">>, TRUE),
             <<"addToMCPMemory", "storeMemory", "storeMemoryInD1">>, TRUE, FALSE, TRUE)
    ELSE Did(FALSE, ToolResult(<<"Remembered: ", JsString(thingToRemember)>>, FALSE),
             <<"addToMCPMemory", "storeMemory", "storeMemoryInD1">>, TRUE, TRUE, FALSE)

\* searchMCPMemory
searchMCPMemory(informationToGet, be) ==
    CASE be.search = "throws" ->
            Did(FALSE, ToolResult(<<"Failed to search memories: ", "Error">>, TRUE),
                <<"searchMCPMemory", "searchMemories">>, FALSE, FALSE, TRUE)
      [] be.search = "hits" ->
            Did(FALSE, ToolResult(<<"Found memories:\n", "m (score: 0.9000)">>, FALSE),
                <<"searchMCPMemory", "searchMemories">>, FALSE, FALSE, FALSE)
      [] OTHER ->
            Did(FALSE, ToolResult(<<"No relevant memories found.">>, FALSE),
                <<"searchMCPMemory", "searchMemories">>, FALSE, FALSE, FALSE)

----------------------------------------------------------------------------
(* The Method Dispatcher *)

\* handleInitialize
handleInitialize(request) ==
    ResultEnvelope([kind |-> "capabilities", tools |-> {}, text |-> <<>>, isError |-> FALSE],
                   OrElse(request.id, Null))

\* a catalogue entry: the tool's name and the one string property its
\* inputSchema requires
Tool(name, required) == [name |-> name, required |-> required]

\* handleToolsList listing a tool the dispatcher does not know
handleToolsList_ListsBogus(request) ==
    ResultEnvelope([kind |-> "tools",
                    tools |-> { Tool("addToMCPMemory", "thingToRemember"),
                                Tool("searchMCPMemory", "informationToGet"),
                                Tool("bogusTool", "thingToRemember") },
                    text |-> <<>>, isError |-> FALSE],
                   OrElse(request.id, Null))

\* handleToolsList: the catalogue
handleToolsList(request) ==
    ResultEnvelope([kind |-> "tools",
                    tools |-> { Tool("addToMCPMemory", "thingToRemember"),
                                Tool("searchMCPMemory", "informationToGet") },
                    text |-> <<>>, isError |-> FALSE],
                   OrElse(request.id, Null))

\* handleToolCall: destructuring params throws on undefined and null, and
\* reading a member of args throws on undefined
handleToolCall(request, be) ==
    IF request.params.t \in { "undefined", "null" }
    THEN Did(TRUE, NoEnvelope, <<"handleToolCall">>, FALSE, FALSE, FALSE)
    ELSE LET name == request.params.name
             args == request.params.args
             tool == CASE name = Str("addToMCPMemory") ->
                            addToMCPMemory(args.thingToRemember, be)
                       [] OTHER -> searchMCPMemory(args.informationToGet, be)
         IN  IF name \in { Str("addToMCPMemory"), Str("searchMCPMemory") }
             THEN IF args.t = "undefined" \/ tool.threw
                  THEN Did(TRUE, NoEnvelope,
                           <<"handleToolCall">> \o (IF args.t = "undefined" THEN <<>> ELSE tool.calls),
                           args.t # "undefined" /\ tool.vec, args.t # "undefined" /\ tool.rec,
                           args.t # "undefined" /\ tool.failed)
                  ELSE Did(FALSE, ResultEnvelope(tool.val, OrElse(request.id, Null)),
                           <<"handleToolCall">> \o tool.calls, tool.vec, tool.rec, tool.failed)
             ELSE Did(FALSE,
                      ErrorEnvelope(RpcError(-32601, <<"Unknown tool: ", JsString(name)>>),
                                    OrElse(request.id, Null)),
                      <<"handleToolCall">>, FALSE, FALSE, FALSE)

\* processJsonRpcRequest without its try/catch: a handler's exception is
\* thrown on to handlePost
processJsonRpcRequest_NoCatch(request, be) ==
    LET none == Did(FALSE, NoEnvelope, <<>>, FALSE, FALSE, FALSE)
        h == CASE request.method = Str("tools/call") -> handleToolCall(request, be)
               [] request.method = Str("tools/list") ->
                    [none EXCEPT !.val = handleToolsList(request),
                                 !.calls = <<"handleToolsList">>]
               [] request.method = Str("initialize") ->
                    [none EXCEPT !.val = handleInitialize(request),
                                 !.calls = <<"handleInitialize">>]
               [] OTHER ->
                    [none EXCEPT !.val = ErrorEnvelope(RpcError(-32601, <<"Method not found">>),
                                                       OrElse(request.id, Null))]
    IN  Did(h.threw, h.val, <<"processJsonRpcRequest">> \o h.calls, h.vec, h.rec, h.failed)

\* processJsonRpcRequest whose default case answers like initialize
processJsonRpcRequest_DefaultInitialize(request, be) ==
    LET none == Did(FALSE, NoEnvelope, <<>>, FALSE, FALSE, FALSE)
        h == CASE request.method = Str("tools/call") -> handleToolCall(request, be)
               [] request.method = Str("tools/list") ->
                    [none EXCEPT !.val = handleToolsList(request),
                                 !.calls = <<"handleToolsList">>]
               [] OTHER ->
                    [none EXCEPT !.val = handleInitialize(request),
                                 !.calls = <<"handleInitialize">>]
    IN  IF h.threw
        THEN Did(FALSE,
                 ErrorEnvelope(RpcErrorData(-32603, <<"Internal error">>, "TypeError"),
                               OrElse(request.id, Null)),
                 <<"processJsonRpcRequest">> \o h.calls, h.vec, h.rec, h.failed)
        ELSE Did(FALSE, h.val, <<"processJsonRpcRequest">> \o h.calls, h.vec, h.rec, h.failed)

\* processJsonRpcRequest: the switch on the method inside try/catch
processJsonRpcRequest(request, be) ==
    LET none == Did(FALSE, NoEnvelope, <<>>, FALSE, FALSE, FALSE)
        h == CASE request.method = Str("tools/call") -> handleToolCall(request, be)
               [] request.method = Str("tools/list") ->
                    [none EXCEPT !.val = handleToolsList(request),
                                 !.calls = <<"handleToolsList">>]
               [] request.method = Str("initialize") ->
                    [none EXCEPT !.val = handleInitialize(request),
                                 !.calls = <<"handleInitialize">>]
               [] OTHER ->
                    [none EXCEPT !.val = ErrorEnvelope(RpcError(-32601, <<"Method not found">>),
                                                       OrElse(request.id, Null))]
    IN  IF h.threw
        THEN Did(FALSE,
                 ErrorEnvelope(RpcErrorData(-32603, <<"Internal error">>, "TypeError"),
                               OrElse(request.id, Null)),
                 <<"processJsonRpcRequest">> \o h.calls, h.vec, h.rec, h.failed)
        ELSE Did(FALSE, h.val, <<"processJsonRpcRequest">> \o h.calls, h.vec, h.rec, h.failed)

\* shouldUseSSE finding every result stream-worthy
shouldUseSSE_Always(request, response) == TRUE

\* shouldUseSSE
shouldUseSSE(request, response) == FALSE

----------------------------------------------------------------------------
(* Responses *)

NoHeader == [present |-> FALSE, v |-> ""]
Header(v) == [present |-> TRUE, v |-> v]

Response(status, contentType, session, kind, env, events) ==
    [status |-> status, contentType |-> contentType, session |-> session,
     kind |-> kind, env |-> env, events |-> events]
NoResponse == Response(0, "", NoHeader, "none", NoEnvelope, <<>>)

\* createJsonResponse answering with the generic OK status
createJsonResponse_Ok200(result, sessionId) ==
    Response(200, "application/json", Header(sessionId), "json", result, <<>>)

\* createJsonResponse
createJsonResponse(result, sessionId) ==
    Response(202, "application/json", Header(sessionId), "json", result, <<>>)

\* createSSEResponse: one frame holding the envelope
createSSEResponse(result, sessionId) ==
    Response(200, "text/event-stream", Header(sessionId), "sse-frame", result, <<>>)

\* createSSEStream whose start() enqueues the notification twice
createSSEStream_TwoEvents(sessionId) ==
    Response(200, "text/event-stream", Header(sessionId), "sse-stream", NoEnvelope,
             << [method |-> "notifications/initialized", sessionId |-> sessionId],
                [method |-> "notifications/initialized", sessionId |-> sessionId] >>)

\* createSSEStream: start() enqueues one notification and nothing follows
createSSEStream(sessionId) ==
    Response(200, "text/event-stream", Header(sessionId), "sse-stream", NoEnvelope,
             << [method |-> "notifications/initialized", sessionId |-> sessionId] >>)

\* createCapabilitiesResponse
createCapabilitiesResponse(sessionId) ==
    Response(200, "application/json", Header(sessionId), "capabilities", NoEnvelope, <<>>)

\* createErrorResponse without the session header
createErrorResponse_NoSession(error, id, sessionId) ==
    Response(400, "application/json", NoHeader, "json", ErrorEnvelope(error, id), <<>>)

\* createErrorResponse
createErrorResponse(error, id, sessionId) ==
    Response(400, "application/json", Header(sessionId), "json",
             ErrorEnvelope(error, id), <<>>)

\* createCorsResponse: null body, CORS headers only
createCorsResponse ==
    Response(204, "", NoHeader, "empty", NoEnvelope, <<>>)

\* new Response("Method not allowed", { status: 405 })
MethodNotAllowedResponse ==
    Response(405, "text/plain", NoHeader, "text", NoEnvelope, <<>>)

\* an exception that leaves handleRequest: the platform's error page
Fault == Response(500, "", NoHeader, "fault", NoEnvelope, <<>>)

----------------------------------------------------------------------------
(* The Session Store: one SessionManager Durable Object per caller namespace *)

Users == { "alice", "bob" }

\* what uuidv4() returns, in the order it returns them; never a repeat
UuidPool == << "u1", "u2", "u3", "u4", "u5", "u6" >>
Uuids == { UuidPool[i] : i \in 1..MaxMint }
\* identifiers uuidv4() never returned
ForeignIds == { "x1" }
SessionIds == Uuids \cup ForeignIds
\* storage.list() returns the keys in order
KeyOrder == UuidPool \o << "x1" >>
KeyPos(k) == CHOOSE i \in 1..Len(KeyOrder) : KeyOrder[i] = k

\* SessionData, and the undefined that storage.get answers for a missing key
NoSession ==
    [present |-> FALSE, id |-> "", userId |-> "", createdAt |-> 0, lastActivity |-> 0,
     metadata |-> {}]
SessionData(id, userId, createdAt, lastActivity, metadata) ==
    [present |-> TRUE, id |-> id, userId |-> userId, createdAt |-> createdAt,
     lastActivity |-> lastActivity, metadata |-> metadata]

EmptyStorage == [k \in SessionIds |-> NoSession]
StorageGet(st, k) == IF k \in DOMAIN st THEN st[k] ELSE NoSession
Held(st) == { k \in DOMAIN st : st[k].present }

\* const maxAge = 24 * 60 * 60 * 1000
maxAge == 24 * 60 * 60 * 1000

\* A storage call may throw: okOps storage operations of a handler succeed and
\* the next one throws; AllOps of them is more than any handler makes.
AllOps == Cardinality(SessionIds) + 1
\* A call to the Durable Object either does not reach it (the stub's fetch
\* throws) or runs the handler
StoreOutcomes == [reachable : BOOLEAN, okOps : 0..AllOps]
NoFailure == [reachable |-> TRUE, okOps |-> AllOps]

\* what a SessionManager handler answers and the storage it leaves
Answer(threw, status, st, cleaned, active) ==
    [threw |-> threw, status |-> status, st |-> st, cleaned |-> cleaned, active |-> active]

\* createSession that answers without the storage.put
createSession_NoPut(st, sessionId, userId, metadata, clock, okOps) ==
    IF okOps < 1
    THEN Answer(TRUE, 0, st, 0, 0)
    ELSE Answer(FALSE, 200, st, 0, 0)

\* createSession: one storage.put
createSession(st, sessionId, userId, metadata, clock, okOps) ==
    IF okOps < 1
    THEN Answer(TRUE, 0, st, 0, 0)
    ELSE Answer(FALSE, 200,
                [st EXCEPT ![sessionId] = SessionData(sessionId, userId, clock, clock, metadata)],
                0, 0)

\* Session metadata: a mapping, held as the set of its <<key, value>> pairs;
\* the values are opaque
Keys(m) == { e[1] : e \in m }
\* { ...m, ...p }
Spread(m, p) == { e \in m : e[1] \notin Keys(p) } \cup p
\* the metadata member of an update's body: absent, null, or a mapping
NoPatch == [t |-> "undefined", m |-> {}]
NullPatch == [t |-> "null", m |-> {}]
Patch(m) == [t |-> "object", m |-> m]

\* updateSession that sets last-activity back to the creation time
updateSession_ResetsActivity(st, sessionId, metadata, clock, okOps) ==
    IF okOps < 1
    THEN Answer(TRUE, 0, st, 0, 0)
    ELSE IF ~StorageGet(st, sessionId).present
    THEN Answer(FALSE, 404, st, 0, 0)
    ELSE IF okOps < 2
    THEN Answer(TRUE, 0, st, 0, 0)
    ELSE Answer(FALSE, 200,
                [st EXCEPT ![sessionId].lastActivity = st[sessionId].createdAt,
                           ![sessionId].metadata =
                               IF metadata.t = "object" THEN Spread(@, metadata.m) ELSE @],
                0, 0)

\* updateSession that replaces the metadata by the patch
updateSession_Replaces(st, sessionId, metadata, clock, okOps) ==
    IF okOps < 1
    THEN Answer(TRUE, 0, st, 0, 0)
    ELSE IF ~StorageGet(st, sessionId).present
    THEN Answer(FALSE, 404, st, 0, 0)
    ELSE IF okOps < 2
    THEN Answer(TRUE, 0, st, 0, 0)
    ELSE Answer(FALSE, 200,
                [st EXCEPT ![sessionId].lastActivity = clock,
                           ![sessionId].metadata =
                               IF metadata.t = "object" THEN metadata.m ELSE @],
                0, 0)

\* updateSession that stores a session for an identifier it does not find
updateSession_Creates(st, sessionId, metadata, clock, okOps) ==
    IF okOps < 1
    THEN Answer(TRUE, 0, st, 0, 0)
    ELSE IF okOps < 2
    THEN Answer(TRUE, 0, st, 0, 0)
    ELSE IF ~StorageGet(st, sessionId).present
    THEN Answer(FALSE, 200,
                [st EXCEPT ![sessionId] = SessionData(sessionId, "", clock, clock, metadata.m)],
                0, 0)
    ELSE Answer(FALSE, 200,
                [st EXCEPT ![sessionId].lastActivity = clock,
                           ![sessionId].metadata =
                               IF metadata.t = "object" THEN Spread(@, metadata.m) ELSE @],
                0, 0)

\* updateSession: storage.get, the refresh and the merge on the record read,
\* then a storage.put
updateSession(st, sessionId, metadata, clock, okOps) ==
    IF okOps < 1
    THEN Answer(TRUE, 0, st, 0, 0)
    ELSE IF ~StorageGet(st, sessionId).present
    THEN Answer(FALSE, 404, st, 0, 0)
    ELSE IF okOps < 2
    THEN Answer(TRUE, 0, st, 0, 0)
    ELSE Answer(FALSE, 200,
                [st EXCEPT ![sessionId].lastActivity = clock,
                           ![sessionId].metadata =
                               IF metadata.t = "object" THEN Spread(@, metadata.m) ELSE @],
                0, 0)

\* getSession that writes the record back as it read it
getSession_NoRefresh(st, sessionId, clock, okOps) ==
    IF okOps < 1
    THEN Answer(TRUE, 0, st, 0, 0)
    ELSE IF ~StorageGet(st, sessionId).present
    THEN Answer(FALSE, 404, st, 0, 0)
    ELSE IF okOps < 2
    THEN Answer(TRUE, 0, st, 0, 0)
    ELSE Answer(FALSE, 200, st, 0, 0)

\* getSession that reports a session idle for longer than the window as not found
getSession_ChecksAge(st, sessionId, clock, okOps) ==
    IF okOps < 1
    THEN Answer(TRUE, 0, st, 0, 0)
    ELSE IF ~StorageGet(st, sessionId).present
    THEN Answer(FALSE, 404, st, 0, 0)
    ELSE IF clock - st[sessionId].lastActivity > maxAge
    THEN Answer(FALSE, 404, st, 0, 0)
    ELSE IF okOps < 2
    THEN Answer(TRUE, 0, st, 0, 0)
    ELSE Answer(FALSE, 200, [st EXCEPT ![sessionId].lastActivity = clock], 0, 0)

\* getSession: storage.get, then a storage.put of the refreshed record
getSession(st, sessionId, clock, okOps) ==
    IF okOps < 1
    THEN Answer(TRUE, 0, st, 0, 0)
    ELSE IF ~StorageGet(st, sessionId).present
    THEN Answer(FALSE, 404, st, 0, 0)
    ELSE IF okOps < 2
    THEN Answer(TRUE, 0, st, 0, 0)
    ELSE Answer(FALSE, 200, [st EXCEPT ![sessionId].lastActivity = clock], 0, 0)

\* deleteSession: storage.get, then storage.delete
deleteSession(st, sessionId, okOps) ==
    IF okOps < 1
    THEN Answer(TRUE, 0, st, 0, 0)
    ELSE IF ~StorageGet(st, sessionId).present
    THEN Answer(FALSE, 404, st, 0, 0)
    ELSE IF okOps < 2
    THEN Answer(TRUE, 0, st, 0, 0)
    ELSE Answer(FALSE, 200, [st EXCEPT ![sessionId] = NoSession], 0, 0)

\* the sweep's test taking a session idle for exactly the window as too old
Expired_Inclusive(st, clock) == { k \in Held(st) : clock - st[k].lastActivity >= maxAge }

\* the sessions the sweep finds too old
Expired(st, clock) == { k \in Held(st) : clock - st[k].lastActivity > maxAge }

\* cleanupSessions that lists the sessions and deletes none
cleanupSessions_KeepsAll(st, clock, okOps) ==
    IF okOps < 1
    THEN Answer(TRUE, 0, st, 0, 0)
    ELSE Answer(FALSE, 200, st, 0, Cardinality(Held(st)))

\* cleanupSessions that removes one expired session a run
cleanupSessions_OnePerRun(st, clock, okOps) ==
    IF okOps < 1
    THEN Answer(TRUE, 0, st, 0, 0)
    ELSE LET expired == Expired(st, clock)
             first == { k \in expired : \A j \in expired : KeyPos(k) <= KeyPos(j) }
             left == [k \in DOMAIN st |-> IF k \in first THEN NoSession ELSE st[k]]
         IN  IF first # {} /\ okOps < 2
             THEN Answer(TRUE, 0, st, 0, 0)
             ELSE Answer(FALSE, 200, left, Cardinality(first),
                         Cardinality(Held(st)) - Cardinality(first))

\* cleanupSessions: storage.list, then one storage.delete per expired session
\* in key order
cleanupSessions(st, clock, okOps) ==
    IF okOps < 1
    THEN Answer(TRUE, 0, st, 0, 0)
    ELSE LET expired == Expired(st, clock)
             before(k) == { j \in expired : KeyPos(j) < KeyPos(k) }
             gone == { k \in expired : Cardinality(before(k)) < okOps - 1 }
             left == [k \in DOMAIN st |-> IF k \in gone THEN NoSession ELSE st[k]]
         IN  IF gone # expired
             THEN Answer(TRUE, 0, left, 0, 0)
             ELSE Answer(FALSE, 200, left, Cardinality(expired),
                         Cardinality(Held(st)) - Cardinality(expired))

\* the body of a call to the SessionManager; metadata is the mapping of a
\* create and the patch of an update
Call(sessionId, userId, metadata) ==
    [sessionId |-> sessionId, userId |-> userId, metadata |-> metadata]

\* SessionManager.fetch: the route table inside try/catch
fetch(st, httpMethod, path, body, clock, okOps) ==
    LET r == CASE httpMethod = "POST" /\ path = "/create" ->
                    createSession(st, body.sessionId, body.userId, body.metadata, clock, okOps)
               [] httpMethod = "POST" /\ path = "/update" ->
                    updateSession(st, body.sessionId, body.metadata, clock, okOps)
               [] httpMethod = "POST" /\ path = "/get" ->
                    getSession(st, body.sessionId, clock, okOps)
               [] httpMethod = "DELETE" /\ path = "/delete" ->
                    deleteSession(st, body.sessionId, okOps)
               [] httpMethod = "GET" /\ path = "/cleanup" ->
                    cleanupSessions(st, clock, okOps)
               [] OTHER -> Answer(FALSE, 404, st, 0, 0)
    IN  IF r.threw THEN Answer(FALSE, 500, r.st, 0, 0) ELSE r

----------------------------------------------------------------------------
(* The earlier SessionManager revision: a Map in memory mirroring storage  *)
(* (src/unnamed/part_000)                                                  *)

\* this.sessions: the Map's entries in insertion order, keyed by their id
MapHas(sessions, k) == \E i \in 1..Len(sessions) : sessions[i].id = k
MapGet(sessions, k) ==
    IF MapHas(sessions, k)
    THEN sessions[CHOOSE i \in 1..Len(sessions) : sessions[i].id = k]
    ELSE NoSession
MapSet(sessions, k, session) ==
    IF MapHas(sessions, k)
    THEN [i \in 1..Len(sessions) |-> IF sessions[i].id = k THEN session ELSE sessions[i]]
    ELSE Append(sessions, session)
MapDelete(sessions, k) ==
    LET kept(r) == r.id # k IN SelectSeq(sessions, kept)

\* the Durable Object: its Map and its storage
Manager(sessions, st) == [sessions |-> sessions, st |-> st]
\* what a handler answers, and the Map and the storage it leaves
MapAnswer(threw, status, sessions, st, cleaned, active) ==
    [threw |-> threw, status |-> status, sessions |-> sessions, st |-> st,
     cleaned |-> cleaned, active |-> active]

\* the constructor: the Map is filled from storage.list(), in key order
LoadSessions(st) ==
    LET held(k) == k \in DOMAIN st /\ st[k].present
        keys == SelectSeq(KeyOrder, held)
    IN  [i \in 1..Len(keys) |-> st[keys[i]]]

\* createSession: sessions.set, then storage.put; okPuts storage writes of a
\* handler succeed and the next one throws
MapCreateSession(mg, sessionId, userId, metadata, clock, okPuts) ==
    LET sessionData == SessionData(sessionId, userId, clock, clock, metadata)
        sessions == MapSet(mg.sessions, sessionId, sessionData)
    IN  IF okPuts < 1
        THEN MapAnswer(TRUE, 0, sessions, mg.st, 0, 0)
        ELSE MapAnswer(FALSE, 200, sessions, [mg.st EXCEPT ![sessionId] = sessionData], 0, 0)

\* updateSession: the entry of the Map is changed in place, then storage.put
MapUpdateSession(mg, sessionId, metadata, clock, okPuts) ==
    IF ~MapHas(mg.sessions, sessionId)
    THEN MapAnswer(FALSE, 404, mg.sessions, mg.st, 0, 0)
    ELSE LET session == [MapGet(mg.sessions, sessionId) EXCEPT
                            !.lastActivity = clock,
                            !.metadata = IF metadata.t = "object"
                                         THEN Spread(@, metadata.m) ELSE @]
             sessions == MapSet(mg.sessions, sessionId, session)
         IN  IF okPuts < 1
             THEN MapAnswer(TRUE, 0, sessions, mg.st, 0, 0)
             ELSE MapAnswer(FALSE, 200, sessions, [mg.st EXCEPT ![sessionId] = session], 0, 0)

\* getSession: the entry of the Map is refreshed in place, then storage.put
MapGetSession(mg, sessionId, clock, okPuts) ==
    IF ~MapHas(mg.sessions, sessionId)
    THEN MapAnswer(FALSE, 404, mg.sessions, mg.st, 0, 0)
    ELSE LET session == [MapGet(mg.sessions, sessionId) EXCEPT !.lastActivity = clock]
             sessions == MapSet(mg.sessions, sessionId, session)
         IN  IF okPuts < 1
             THEN MapAnswer(TRUE, 0, sessions, mg.st, 0, 0)
             ELSE MapAnswer(FALSE, 200, sessions, [mg.st EXCEPT ![sessionId] = session], 0, 0)

\* deleteSession: sessions.delete, then storage.delete
MapDeleteSession(mg, sessionId, okPuts) ==
    IF ~MapHas(mg.sessions, sessionId)
    THEN MapAnswer(FALSE, 404, mg.sessions, mg.st, 0, 0)
    ELSE IF okPuts < 1
    THEN MapAnswer(TRUE, 0, MapDelete(mg.sessions, sessionId), mg.st, 0, 0)
    ELSE MapAnswer(FALSE, 200, MapDelete(mg.sessions, sessionId),
                   [mg.st EXCEPT ![sessionId] = NoSession], 0, 0)

\* cleanupSessions: over the Map's entries in insertion order, sessions.delete
\* then storage.delete for each expired one
MapCleanupSessions(mg, clock, okPuts) ==
    LET old(r) == clock - r.lastActivity > maxAge
        expired == SelectSeq(mg.sessions, old)
        n == Len(expired)
        unmapped == { expired[i].id : i \in 1..(IF n > okPuts THEN okPuts + 1 ELSE n) }
        deleted == { expired[i].id : i \in 1..(IF n > okPuts THEN okPuts ELSE n) }
        kept(r) == r.id \notin unmapped
        sessions == SelectSeq(mg.sessions, kept)
        st == [k \in DOMAIN mg.st |-> IF k \in deleted THEN NoSession ELSE mg.st[k]]
    IN  IF n > okPuts
        THEN MapAnswer(TRUE, 0, sessions, st, 0, 0)
        ELSE MapAnswer(FALSE, 200, sessions, st, n, Len(sessions))

\* fetch of the Map revision: the same route table inside try/catch
MapFetch(mg, httpMethod, path, body, clock, okPuts) ==
    LET r == CASE httpMethod = "POST" /\ path = "/create" ->
                    MapCreateSession(mg, body.sessionId, body.userId, body.metadata,
                                     clock, okPuts)
               [] httpMethod = "POST" /\ path = "/update" ->
                    MapUpdateSession(mg, body.sessionId, body.metadata, clock, okPuts)
               [] httpMethod = "POST" /\ path = "/get" ->
                    MapGetSession(mg, body.sessionId, clock, okPuts)
               [] httpMethod = "DELETE" /\ path = "/delete" ->
                    MapDeleteSession(mg, body.sessionId, okPuts)
               [] httpMethod = "GET" /\ path = "/cleanup" ->
                    MapCleanupSessions(mg, clock, okPuts)
               [] OTHER -> MapAnswer(FALSE, 404, mg.sessions, mg.st, 0, 0)
    IN  IF r.threw THEN MapAnswer(FALSE, 500, r.sessions, r.st, 0, 0) ELSE r

----------------------------------------------------------------------------
(* Session resolution: getOrCreateSession, in its two awaits *)

\* Response.ok
Ok(status) == status >= 200 /\ status <= 299

\* the lookup that never returns the presented identifier
lookupSession_NeverReuses(st, sessionHeader, clock, o) ==
    IF ~(sessionHeader.present /\ sessionHeader.v # "")
    THEN [threw |-> FALSE, found |-> FALSE, st |-> st, outcome |-> "skipped"]
    ELSE IF ~o.reachable
    THEN [threw |-> FALSE, found |-> FALSE, st |-> st, outcome |-> "unreachable"]
    ELSE LET r == fetch(st, "POST", "/get", Call(sessionHeader.v, "", {}), clock, o.okOps)
         IN  [threw |-> FALSE, found |-> FALSE, st |-> r.st,
              outcome |-> IF Ok(r.status) THEN "ok"
                          ELSE IF r.status = 404 THEN "notfound" ELSE "error"]

\* the lookup without its try/catch: the stub's exception is thrown on
lookupSession_NoCatch(st, sessionHeader, clock, o) ==
    IF ~(sessionHeader.present /\ sessionHeader.v # "")
    THEN [threw |-> FALSE, found |-> FALSE, st |-> st, outcome |-> "skipped"]
    ELSE IF ~o.reachable
    THEN [threw |-> TRUE, found |-> FALSE, st |-> st, outcome |-> "unreachable"]
    ELSE LET r == fetch(st, "POST", "/get", Call(sessionHeader.v, "", {}), clock, o.okOps)
         IN  [threw |-> FALSE, found |-> Ok(r.status), st |-> r.st,
              outcome |-> IF Ok(r.status) THEN "ok"
                          ELSE IF r.status = 404 THEN "notfound" ELSE "error"]

\* lines 76-97: the lookup of a presented identifier inside try/catch; found
\* means `return sessionHeader`
lookupSession(st, sessionHeader, clock, o) ==
    IF ~(sessionHeader.present /\ sessionHeader.v # "")
    THEN [threw |-> FALSE, found |-> FALSE, st |-> st, outcome |-> "skipped"]
    ELSE IF ~o.reachable
    THEN [threw |-> FALSE, found |-> FALSE, st |-> st, outcome |-> "unreachable"]
    ELSE LET r == fetch(st, "POST", "/get", Call(sessionHeader.v, "", {}), clock, o.okOps)
         IN  [threw |-> FALSE, found |-> Ok(r.status), st |-> r.st,
              outcome |-> IF Ok(r.status) THEN "ok"
                          ELSE IF r.status = 404 THEN "notfound" ELSE "error"]

\* lines 99-119: registering the minted identifier inside try/catch, the
\* answer not looked at
registerSession(st, sessionId, userId, clock, o) ==
    IF ~o.reachable
    THEN [threw |-> FALSE, st |-> st, outcome |-> "unreachable"]
    ELSE LET r == fetch(st, "POST", "/create", Call(sessionId, userId, {}), clock, o.okOps)
         IN  [threw |-> FALSE, st |-> r.st,
              outcome |-> IF Ok(r.status) THEN "ok" ELSE "error"]

----------------------------------------------------------------------------
(* handlePost, in its two awaits *)

\* lines 127-137 and the catch of 152-158: request.json() and the classifier.
\* done means a response was returned before dispatch; valid is the
\* classifier's verdict.
parseAndClassify(body, sessionId) ==
    IF body.syntax = "malformed"
    THEN [done |-> TRUE, valid |-> FALSE,
          resp |-> createErrorResponse(RpcError(-32700, <<"Parse error">>), Null, sessionId)]
    ELSE IF isValidJsonRpc(body)
    THEN [done |-> FALSE, valid |-> TRUE, resp |-> NoResponse]
    ELSE IF ReadThrows(body)
    THEN [done |-> TRUE, valid |-> FALSE,
          resp |-> createErrorResponse(RpcError(-32700, <<"Parse error">>), Null, sessionId)]
    ELSE [done |-> TRUE, valid |-> FALSE,
          resp |-> createErrorResponse(RpcError(-32600, <<"Invalid Request">>),
                                       OrElse(body.id, Null), sessionId)]

\* lines 142-150: the choice of the rendering
negotiate(accept, body, result, sessionId) ==
    LET supportsJson == Includes(accept, "application/json")
        supportsSSE == Includes(accept, "text/event-stream")
    IN  IF supportsSSE /\ shouldUseSSE(body, result)
        THEN createSSEResponse(result, sessionId)
        ELSE IF supportsJson
        THEN createJsonResponse(result, sessionId)
        ELSE createJsonResponse(result, sessionId)

\* handleGet
handleGet(capabilities, sessionId) ==
    IF capabilities
    THEN createCapabilitiesResponse(sessionId)
    ELSE createSSEStream(sessionId)

----------------------------------------------------------------------------
(* The tool backend's stores (src/utils/vectorize.ts and src/utils/db.ts) *)

\* storeMemory: writes the vector and returns its new memory id
storeMemory(vec) == vec \cup { Cardinality(vec) + 1 }
\* storeMemoryInD1: writes the record under the id storeMemory returned
storeMemoryInD1(recs, memoryId) == recs \cup { memoryId }

----------------------------------------------------------------------------
(* State *)

VARIABLES
    storage,    \* per namespace, the Durable Object's storage
    now,        \* Date.now()
    minted,     \* how many identifiers uuidv4() has returned
    vectorize,  \* the memory ids in the vector store
    d1,         \* the memory ids in the record store
    pc,         \* where the request in flight stands
    rq,         \* the request in flight, as far as the handler has read it
    sn,         \* its session resolution
    dp,         \* what processJsonRpcRequest returned and did
    resp,       \* the response returned
    mirror,     \* the SessionManager of the earlier revision: Map and storage
    op,         \* the last call made to a SessionManager directly
    calls,      \* the calls in flight together on one SessionManager
    base        \* its storage when none of them had acted

vars ==
    << storage, now, minted, vectorize, d1, pc, rq, sn, dp, resp, mirror, op, calls, base >>
store == << storage, now, minted, vectorize, d1 >>
flight == << pc, rq, sn, dp, resp >>
together == << calls, base >>
aside == << mirror, op, together >>

HttpMethods == { "OPTIONS", "POST", "GET", "PUT" }

NoRequest ==
    [user |-> "", method |-> "", header |-> NoHeader, capabilities |-> FALSE,
     accept |-> "", body |-> MalformedBody, valid |-> FALSE]
NoResolution ==
    [lookup |-> "none", held |-> FALSE, create |-> "none", id |-> "", minted |-> "",
     created |-> {}]
NoDispatch == Did(FALSE, NoEnvelope, <<>>, FALSE, FALSE, FALSE)
\* a direct call: its route, its identifier and the patch of an update, the
\* clock's reading when it was made,
\* and what the SessionManager of the storage-only revision (a) and of the Map
\* revision (m) answered, status 0 standing for a revision that was not asked
NotAsked == [status |-> 0, cleaned |-> 0, active |-> 0]
Op(path, sessionId, metadata, at, a, m) ==
    [path |-> path, sessionId |-> sessionId,
     metadata |-> IF path = "/update" THEN metadata ELSE NoPatch, at |-> at,
     status |-> a.status, cleaned |-> a.cleaned, active |-> a.active,
     mapStatus |-> m.status, mapCleaned |-> m.cleaned, mapActive |-> m.active]
NoOp == Op("", "", NoPatch, 0, NotAsked, NotAsked)

\* a call in flight: where its handler stands, its route and body, whether
\* another call was in flight when it arrived, the handler's locals (the
\* reading of Date.now(), the record in hand, the expired sessions still to
\* delete) and its answer
Slots == 1..MaxCalls
NoCall ==
    [phase |-> "none", path |-> "", sessionId |-> "", metadata |-> NoPatch,
     concurrent |-> FALSE, at |-> 0, session |-> NoSession, pending |-> {},
     status |-> 0, cleaned |-> 0, active |-> 0]

Init ==
    /\ storage = [u \in Users |-> EmptyStorage]
    /\ now = 0
    /\ minted = 0
    /\ vectorize = {}
    /\ d1 = {}
    /\ pc = "idle"
    /\ rq = NoRequest
    /\ sn = NoResolution
    /\ dp = NoDispatch
    /\ resp = NoResponse
    /\ mirror = Manager(<<>>, EmptyStorage)
    /\ op = NoOp
    /\ calls = [slot \in Slots |-> NoCall]
    /\ base = EmptyStorage

\* the identifiers a client can present: those handed out so far and foreign ones
Presentable ==
    { NoHeader, Header("") }
    \cup { Header(k) : k \in ForeignIds \cup { UuidPool[i] : i \in 1..minted } }

----------------------------------------------------------------------------
(* The Transport Entry Point *)

\* handleRequest entering the method's handler before the session is resolved
handleRequest_HandlesFirst(userId, method) ==
    /\ pc = "idle"
    /\ rq' = [NoRequest EXCEPT !.user = userId, !.method = method]
    /\ IF method = "OPTIONS"
       THEN /\ resp' = createCorsResponse
            /\ pc' = "rendered"
       ELSE /\ resp' = resp
            /\ pc' = "resolved"
    /\ UNCHANGED << store, sn, dp, aside >>

\* handleRequest resolving the session of every request, the preflight's too
handleRequest_ResolvesFirst(userId, method) ==
    /\ pc = "idle"
    /\ rq' = [NoRequest EXCEPT !.user = userId, !.method = method]
    /\ resp' = resp
    /\ pc' = "getOrCreateSession"
    /\ UNCHANGED << store, sn, dp, aside >>

\* handleRequest turning an unsupported method away before the session is
\* resolved
handleRequest_RejectsFirst(userId, method) ==
    /\ pc = "idle"
    /\ rq' = [NoRequest EXCEPT !.user = userId, !.method = method]
    /\ IF method = "OPTIONS"
       THEN /\ resp' = createCorsResponse
            /\ pc' = "rendered"
       ELSE IF method \notin { "POST", "GET" }
       THEN /\ resp' = MethodNotAllowedResponse
            /\ pc' = "rendered"
       ELSE /\ resp' = resp
            /\ pc' = "getOrCreateSession"
    /\ UNCHANGED << store, sn, dp, aside >>

\* handleRequest up to its first await: the preflight answers at once
handleRequest(userId, method) ==
    /\ pc = "idle"
    /\ rq' = [NoRequest EXCEPT !.user = userId, !.method = method]
    /\ IF method = "OPTIONS"
       THEN /\ resp' = createCorsResponse
            /\ pc' = "rendered"
       ELSE /\ resp' = resp
            /\ pc' = "getOrCreateSession"
    /\ UNCHANGED << store, sn, dp, aside >>

\* the sessions a store call added
Added(before, after) == { after[k] : k \in Held(after) \ Held(before) }

\* getOrCreateSession asking one SessionManager for every caller
SessionLookup_OneNamespace(sessionHeader, o) ==
    /\ pc = "getOrCreateSession"
    /\ LET st == storage["alice"]
           r == lookupSession(st, sessionHeader, now, o)
       IN  /\ rq' = [rq EXCEPT !.header = sessionHeader]
           /\ storage' = [storage EXCEPT !["alice"] = r.st]
           /\ sn' = [sn EXCEPT !.lookup = r.outcome,
                               !.held = StorageGet(storage[rq.user], sessionHeader.v).present,
                               !.id = IF r.found THEN sessionHeader.v ELSE "",
                               !.created = Added(st, r.st)]
           /\ pc' = IF r.threw THEN "rendered" ELSE IF r.found THEN "resolved" ELSE "mint"
           /\ resp' = IF r.threw THEN Fault ELSE resp
    /\ UNCHANGED << now, minted, vectorize, d1, dp, aside >>

\* getOrCreateSession up to the answer of the lookup
SessionLookup(sessionHeader, o) ==
    /\ pc = "getOrCreateSession"
    /\ LET st == storage[rq.user]
           r == lookupSession(st, sessionHeader, now, o)
       IN  /\ rq' = [rq EXCEPT !.header = sessionHeader]
           /\ storage' = [storage EXCEPT ![rq.user] = r.st]
           /\ sn' = [sn EXCEPT !.lookup = r.outcome,
                               !.held = StorageGet(st, sessionHeader.v).present,
                               !.id = IF r.found THEN sessionHeader.v ELSE "",
                               !.created = Added(st, r.st)]
           /\ pc' = IF r.threw THEN "rendered" ELSE IF r.found THEN "resolved" ELSE "mint"
           /\ resp' = IF r.threw THEN Fault ELSE resp
    /\ UNCHANGED << now, minted, vectorize, d1, dp, aside >>

\* getOrCreateSession from uuidv4() to its return
SessionCreate(o) ==
    /\ pc = "mint"
    /\ minted < MaxMint
    /\ LET st == storage[rq.user]
           sessionId == UuidPool[minted + 1]
           r == registerSession(st, sessionId, rq.user, now, o)
       IN  /\ minted' = minted + 1
           /\ storage' = [storage EXCEPT ![rq.user] = r.st]
           /\ sn' = [sn EXCEPT !.create = r.outcome,
                               !.id = sessionId,
                               !.minted = sessionId,
                               !.created = sn.created \cup Added(st, r.st)]
           /\ pc' = IF r.threw THEN "rendered" ELSE "resolved"
           /\ resp' = IF r.threw THEN Fault ELSE resp
    /\ UNCHANGED << now, vectorize, d1, rq, dp, aside >>

\* handlePost up to the classifier's verdict
PostParse(accept, body) ==
    /\ pc = "resolved"
    /\ rq.method = "POST"
    /\ LET r == parseAndClassify(body, sn.id)
       IN  /\ rq' = [rq EXCEPT !.accept = accept, !.body = body, !.valid = r.valid]
           /\ resp' = r.resp
           /\ pc' = IF r.done THEN "rendered" ELSE "dispatch"
    /\ UNCHANGED << store, sn, dp, aside >>

\* await processJsonRpcRequest(body), the tool backend's round trip included;
\* an exception out of it would land in handlePost's catch
Dispatch(be) ==
    /\ pc = "dispatch"
    /\ LET r == processJsonRpcRequest(rq.body, be)
           vec == IF r.vec THEN storeMemory(vectorize) ELSE vectorize
       IN  /\ Cardinality(vec) <= MaxMemories
           /\ dp' = r
           /\ vectorize' = vec
           /\ d1' = IF r.rec THEN storeMemoryInD1(d1, Cardinality(vec)) ELSE d1
           /\ pc' = IF r.threw THEN "rendered" ELSE "negotiate"
           /\ resp' = IF r.threw
                      THEN createErrorResponse(RpcError(-32700, <<"Parse error">>), Null, sn.id)
                      ELSE resp
    /\ UNCHANGED << storage, now, minted, rq, sn, aside >>

\* handlePost from the dispatcher's answer to its return
Negotiate ==
    /\ pc = "negotiate"
    /\ resp' = negotiate(rq.accept, rq.body, dp.val, sn.id)
    /\ pc' = "rendered"
    /\ UNCHANGED << store, rq, sn, dp, aside >>

\* case "GET"
Get(capabilities) ==
    /\ pc = "resolved"
    /\ rq.method = "GET"
    /\ rq' = [rq EXCEPT !.capabilities = capabilities]
    /\ resp' = handleGet(capabilities, sn.id)
    /\ pc' = "rendered"
    /\ UNCHANGED << store, sn, dp, aside >>

\* the switch's default
MethodNotAllowed ==
    /\ pc = "resolved"
    /\ rq.method \notin { "POST", "GET" }
    /\ resp' = MethodNotAllowedResponse
    /\ pc' = "rendered"
    /\ UNCHANGED << store, rq, sn, dp, aside >>

\* the response is sent; the next request may come
Complete ==
    /\ pc = "rendered"
    /\ pc' = "idle"
    /\ rq' = NoRequest
    /\ sn' = NoResolution
    /\ dp' = NoDispatch
    /\ resp' = NoResponse
    /\ UNCHANGED << store, aside >>

----------------------------------------------------------------------------
(* What goes on beside the request in flight *)

\* time passes
Tick(d) ==
    /\ (now \div maxAge) + (now % maxAge) < MaxTicks
    /\ now' = now + d
    /\ UNCHANGED << storage, minted, vectorize, d1, flight, aside >>

\* DELETE /delete on a namespace's SessionManager
Delete(userId, sessionId, okOps) ==
    /\ storage' = [storage EXCEPT ![userId] =
                      fetch(@, "DELETE", "/delete", Call(sessionId, "", {}), now, okOps).st]
    /\ storage' # storage
    /\ UNCHANGED << now, minted, vectorize, d1, flight, aside >>

\* GET /cleanup on a namespace's SessionManager: the expiry sweep
Cleanup(userId, okOps) ==
    /\ storage' = [storage EXCEPT ![userId] =
                      fetch(@, "GET", "/cleanup", Call("", "", {}), now, okOps).st]
    /\ storage' # storage
    /\ UNCHANGED << now, minted, vectorize, d1, flight, aside >>

\* how a failing storage shows to a handler: its first read throws, or its
\* reads succeed and the write after `puts` successful ones throws
StoreFailures ==
    { [read |-> TRUE, puts |-> AllOps], [read |-> FALSE, puts |-> AllOps],
      [read |-> TRUE, puts |-> 0], [read |-> TRUE, puts |-> 1] }
\* the storage calls of a handler that succeed: createSession only writes,
\* the other handlers read first
OkOps(path, f) ==
    IF path = "/create" THEN f.puts ELSE IF f.read THEN 1 + f.puts ELSE 0

\* a call made to a namespace's SessionManager directly
StoreCall(userId, httpMethod, path, body, f) ==
    /\ pc = "idle"
    /\ LET a == fetch(storage[userId], httpMethod, path, body, now, OkOps(path, f))
       IN  /\ storage' = [storage EXCEPT ![userId] = a.st]
           /\ op' = Op(path, body.sessionId, body.metadata, now, a, NotAsked)
    /\ UNCHANGED << now, minted, vectorize, d1, flight, mirror, together >>

\* the same call made to the SessionManager of the earlier revision, which
\* makes no storage read
MapCall(httpMethod, path, body, okPuts) ==
    /\ pc = "idle"
    /\ LET m == MapFetch(mirror, httpMethod, path, body, now, okPuts)
       IN  /\ mirror' = Manager(m.sessions, m.st)
           /\ op' = Op(path, body.sessionId, body.metadata, now, NotAsked, m)
    /\ UNCHANGED << store, flight, together >>

\* one call answered by both revisions, each on its own storage, under the
\* same storage failure
BothCall(userId, httpMethod, path, body, f) ==
    /\ pc = "idle"
    /\ LET a == fetch(storage[userId], httpMethod, path, body, now, OkOps(path, f))
           m == MapFetch(mirror, httpMethod, path, body, now, f.puts)
       IN  /\ storage' = [storage EXCEPT ![userId] = a.st]
           /\ mirror' = Manager(m.sessions, m.st)
           /\ op' = Op(path, body.sessionId, body.metadata, now, a, m)
    /\ UNCHANGED << now, minted, vectorize, d1, flight, together >>

\* the Durable Object of the Map revision is evicted and constructed again
Restart ==
    /\ mirror' = Manager(LoadSessions(mirror.st), mirror.st)
    /\ mirror' # mirror
    /\ op' = [NoOp EXCEPT !.path = "constructor"]
    /\ UNCHANGED << store, flight, together >>

----------------------------------------------------------------------------
(* Specifications *)

\* the outcomes of a call to the store that differ for get and create: the
\* stub throws, the first or the second storage call throws, nothing throws
CallOutcomes ==
    { [reachable |-> FALSE, okOps |-> AllOps], [reachable |-> TRUE, okOps |-> 0],
      [reachable |-> TRUE, okOps |-> 1], NoFailure }

InitializeBody ==
    [syntax |-> "json", top |-> Obj, jsonrpc |-> Str("2.0"), method |-> Str("initialize"),
     id |-> Str("a"), params |-> NoParams]
\* the bodies the session-centred specification posts
ProbeBodies == { MalformedBody, InitializeBody }
NoBackendFailure == [vector |-> "ok", d1 |-> "ok", search |-> "none"]

\* every caller, every HTTP method, every store outcome, the sweep and the clock
Next ==
    \/ \E u \in Users, m \in HttpMethods : handleRequest(u, m)
    \/ \E h \in Presentable, o \in CallOutcomes : SessionLookup(h, o)
    \/ \E o \in CallOutcomes : SessionCreate(o)
    \/ \E b \in ProbeBodies : PostParse("application/json", b)
    \/ Dispatch(NoBackendFailure)
    \/ Negotiate
    \/ \E c \in BOOLEAN : Get(c)
    \/ MethodNotAllowed
    \/ Complete
    \/ Tick(maxAge + 1)
    \/ \E u \in Users, k \in SessionIds : Delete(u, k, AllOps)
    \/ \E u \in Users, n \in 0..AllOps : Cleanup(u, n)

Spec == Init /\ [][Next]_vars

\* one caller posting every body under every Accept header, with or without
\* the first identifier handed out
RpcNext ==
    \/ handleRequest("alice", "POST")
    \/ \E h \in { NoHeader, Header(UuidPool[1]) } : SessionLookup(h, NoFailure)
    \/ SessionCreate(NoFailure)
    \/ \E a \in Accepts, b \in Bodies : PostParse(a, b)
    \/ \E be \in BackendOutcomes : Dispatch(be)
    \/ Negotiate
    \/ Complete

RpcSpec == Init /\ [][RpcNext]_vars

\* the sessions, the metadata and the patches of the direct calls
StoreKeys == { UuidPool[1], "x1" }
Patches ==
    { NoPatch, NullPatch, Patch({ <<"a", 1>> }), Patch({ <<"a", 2>> }), Patch({ <<"b", 1>> }) }

\* one namespace's SessionManager under every sequence of create, get,
\* update, delete and sweep calls and storage failures, the clock reading
\* the retention window and then one millisecond more
StoreNext ==
    \/ \E k \in StoreKeys, f \in StoreFailures :
          StoreCall("alice", "POST", "/create", Call(k, "alice", {}), f)
    \/ \E k \in StoreKeys, f \in StoreFailures :
          StoreCall("alice", "POST", "/get", Call(k, "", NoPatch), f)
    \/ \E p \in Patches, f \in StoreFailures :
          StoreCall("alice", "POST", "/update", Call(UuidPool[1], "", p), f)
    \/ \E k \in StoreKeys, f \in StoreFailures :
          StoreCall("alice", "DELETE", "/delete", Call(k, "", NoPatch), f)
    \/ \E f \in StoreFailures :
          StoreCall("alice", "GET", "/cleanup", Call("", "", NoPatch), f)
    \/ now = 0 /\ Tick(maxAge)
    \/ now = maxAge /\ Tick(1)

StoreSpec == Init /\ [][StoreNext]_vars

\* an invocation of the sweep that the storage lets complete
Sweep ==
    StoreCall("alice", "GET", "/cleanup", Call("", "", NoPatch),
              [read |-> TRUE, puts |-> AllOps])

\* the calls to one namespace's SessionManager where the sweep keeps being
\* invoked, the storage failing under the sweep and under get
LiveNext ==
    \/ \E k \in StoreKeys :
          StoreCall("alice", "POST", "/create", Call(k, "alice", {}), [read |-> TRUE, puts |-> AllOps])
    \/ \E k \in StoreKeys, f \in StoreFailures :
          StoreCall("alice", "POST", "/get", Call(k, "", NoPatch), f)
    \/ StoreCall("alice", "POST", "/update", Call(UuidPool[1], "", Patch({ <<"a", 1>> })),
                 [read |-> TRUE, puts |-> AllOps])
    \/ \E k \in StoreKeys :
          StoreCall("alice", "DELETE", "/delete", Call(k, "", NoPatch), [read |-> TRUE, puts |-> AllOps])
    \/ \E f \in StoreFailures :
          StoreCall("alice", "GET", "/cleanup", Call("", "", NoPatch), f)
    \/ now = 0 /\ Tick(maxAge)
    \/ now = maxAge /\ Tick(1)

LiveSpec == Init /\ [][LiveNext]_vars /\ WF_vars(Sweep)

----------------------------------------------------------------------------
(* Calls in flight together on one SessionManager, each handler taken from *)
(* one await to the next                                                   *)

\* the awaits on ctx.storage
StoragePhases == { "get", "put", "delete", "list", "sweep" }
Busy(call) == call.phase \in StoragePhases

\* no event is delivered to the SessionManager without the input gate
InputGate_Absent(slot) == TRUE

\* the Durable Object's input gate: while a storage operation of one call is
\* in progress no event of another call is delivered to the object
InputGate(slot) == \A other \in Slots \ { slot } : ~Busy(calls[other])

\* fetch is entered: cleanupSessions reads the clock and awaits
\* storage.list; the other handlers await request.json()
Launch(slot, path, sessionId, metadata) ==
    /\ pc = "idle"
    /\ calls[slot].phase = "none"
    /\ \A before \in 1..(slot - 1) : calls[before].phase # "none"
    /\ InputGate(slot)
    /\ calls' = [calls EXCEPT ![slot] =
                    [NoCall EXCEPT
                       !.phase = IF path = "/cleanup" THEN "list" ELSE "body",
                       !.path = path,
                       !.sessionId = sessionId,
                       !.metadata = metadata,
                       !.concurrent = \E other \in Slots \ { slot } :
                                         calls[other].phase \notin { "none", "done" },
                       !.at = IF path = "/cleanup" THEN now ELSE 0]]
    /\ UNCHANGED << store, flight, mirror, op, base >>

\* request.json() resolves: createSession builds the record and awaits
\* storage.put; the other handlers await storage.get
Parsed(slot) ==
    /\ calls[slot].phase = "body"
    /\ InputGate(slot)
    /\ LET c == calls[slot]
       IN  calls' = [calls EXCEPT ![slot] =
                        IF c.path = "/create"
                        THEN [c EXCEPT !.phase = "put",
                                       !.at = now,
                                       !.session = SessionData(c.sessionId, "alice", now, now, {})]
                        ELSE [c EXCEPT !.phase = "get"]]
    /\ UNCHANGED << store, flight, mirror, op, base >>

\* the session the handler writes back after its storage.get
Refreshed(c, session, clock) ==
    [session EXCEPT !.lastActivity = clock,
                    !.metadata = IF c.path = "/update" /\ c.metadata.t = "object"
                                 THEN Spread(@, c.metadata.m) ELSE @]

\* the first of the expired sessions still to delete, in key order
NextPending(pending) == CHOOSE k \in pending : \A j \in pending : KeyPos(k) <= KeyPos(j)

\* the storage operation a call awaits completes and its handler runs to the
\* next await or to its return
StorageDone(slot) ==
    /\ Busy(calls[slot])
    /\ InputGate(slot)
    /\ LET c == calls[slot]
           st == storage["alice"]
           session == StorageGet(st, c.sessionId)
           expired == Expired(st, c.at)
       IN  CASE c.phase = "get" ->
                  /\ calls' = [calls EXCEPT ![slot] =
                                  IF ~session.present
                                  THEN [c EXCEPT !.phase = "done", !.status = 404]
                                  ELSE IF c.path = "/delete"
                                  THEN [c EXCEPT !.phase = "delete", !.session = session]
                                  ELSE [c EXCEPT !.phase = "put", !.at = now,
                                                 !.session = Refreshed(c, session, now)]]
                  /\ storage' = storage
             [] c.phase = "put" ->
                  /\ storage' = [storage EXCEPT !["alice"][c.sessionId] = c.session]
                  /\ calls' = [calls EXCEPT ![slot] = [c EXCEPT !.phase = "done", !.status = 200]]
             [] c.phase = "delete" ->
                  /\ storage' = [storage EXCEPT !["alice"][c.sessionId] = NoSession]
                  /\ calls' = [calls EXCEPT ![slot] = [c EXCEPT !.phase = "done", !.status = 200]]
             [] c.phase = "list" ->
                  /\ storage' = storage
                  /\ calls' = [calls EXCEPT ![slot] =
                                  IF expired = {}
                                  THEN [c EXCEPT !.phase = "done", !.status = 200,
                                                 !.active = Cardinality(Held(st))]
                                  ELSE [c EXCEPT !.phase = "sweep", !.pending = expired,
                                                 !.active = Cardinality(Held(st) \ expired)]]
             [] c.phase = "sweep" ->
                  LET k == NextPending(c.pending)
                  IN  /\ storage' = [storage EXCEPT !["alice"][k] = NoSession]
                      /\ calls' = [calls EXCEPT ![slot] =
                                      [c EXCEPT !.phase = IF c.pending = { k } THEN "done" ELSE "sweep",
                                                !.status = IF c.pending = { k } THEN 200 ELSE 0,
                                                !.pending = c.pending \ { k },
                                                !.cleaned = c.cleaned + 1]]
    /\ UNCHANGED << now, minted, vectorize, d1, flight, mirror, op, base >>

\* every call in flight has been answered; the next ones start from the
\* storage they left
Settle ==
    /\ \A slot \in Slots : calls[slot].phase \in { "none", "done" }
    /\ \E slot \in Slots : calls[slot].phase = "done"
    /\ calls' = [slot \in Slots |-> NoCall]
    /\ base' = storage["alice"]
    /\ UNCHANGED << store, flight, mirror, op >>

\* create, get, update, delete and sweep calls in flight together on one
\* namespace's SessionManager with a working storage, the clock passing the
\* retention window
ConcurrentNext ==
    \/ \E slot \in Slots : Launch(slot, "/create", UuidPool[1], NoPatch)
    \/ \E slot \in Slots : Launch(slot, "/get", UuidPool[1], NoPatch)
    \/ \E slot \in Slots, p \in { Patch({ <<"a", 1>> }), Patch({ <<"b", 1>> }) } :
          Launch(slot, "/update", UuidPool[1], p)
    \/ \E slot \in Slots : Launch(slot, "/delete", UuidPool[1], NoPatch)
    \/ \E slot \in Slots : Launch(slot, "/cleanup", "", NoPatch)
    \/ \E slot \in Slots : Parsed(slot)
    \/ \E slot \in Slots : StorageDone(slot)
    \/ Settle
    \/ Tick(maxAge + 1)

ConcurrentSpec == Init /\ [][ConcurrentNext]_vars

\* the SessionManager of the earlier revision under the same calls, with its
\* evictions
MapNext ==
    \/ \E k \in StoreKeys, n \in 0..2 :
          MapCall("POST", "/create", Call(k, "alice", {}), n)
    \/ \E k \in StoreKeys, n \in 0..2 :
          MapCall("POST", "/get", Call(k, "", NoPatch), n)
    \/ \E p \in { NoPatch, Patch({ <<"a", 1>> }) }, n \in 0..2 :
          MapCall("POST", "/update", Call(UuidPool[1], "", p), n)
    \/ \E k \in StoreKeys, n \in 0..2 :
          MapCall("DELETE", "/delete", Call(k, "", NoPatch), n)
    \/ \E n \in 0..2 :
          MapCall("GET", "/cleanup", Call("", "", NoPatch), n)
    \/ now = 0 /\ Tick(maxAge)
    \/ now = maxAge /\ Tick(1)
    \/ Restart

MapSpec == Init /\ [][MapNext]_vars

\* a namespace served by the one revision or by the other
RevisionsNext ==
    \/ mirror = Manager(<<>>, EmptyStorage) /\ StoreNext
    \/ storage = [u \in Users |-> EmptyStorage] /\ MapNext

RevisionsSpec == Init /\ [][RevisionsNext]_vars

\* the storage failures the two revisions can meet alike: none, or a write
\* that throws
WriteFailures == { f \in StoreFailures : f.read }

\* both revisions given the same sequence of calls on one session from the
\* same empty storage
EquivNext ==
    \/ \E f \in WriteFailures :
          BothCall("alice", "POST", "/create", Call(UuidPool[1], "alice", {}), f)
    \/ \E f \in WriteFailures :
          BothCall("alice", "POST", "/get", Call(UuidPool[1], "", NoPatch), f)
    \/ \E p \in { NoPatch, Patch({ <<"a", 1>> }) }, f \in WriteFailures :
          BothCall("alice", "POST", "/update", Call(UuidPool[1], "", p), f)
    \/ \E f \in WriteFailures :
          BothCall("alice", "DELETE", "/delete", Call(UuidPool[1], "", NoPatch), f)
    \/ \E f \in WriteFailures :
          BothCall("alice", "GET", "/cleanup", Call("", "", NoPatch), f)
    \/ now = 0 /\ Tick(maxAge)
    \/ now = maxAge /\ Tick(1)
    \/ Restart

EquivSpec == Init /\ [][EquivNext]_vars

----------------------------------------------------------------------------
(* Properties *)

\* the request in flight has its session resolved
Resolved == pc \in { "resolved", "dispatch", "negotiate", "rendered" }
\* a POST whose body has been read
Posted == rq.method = "POST" /\ pc \in { "dispatch", "negotiate", "rendered" }
\* a call of this request to the Session Store threw or answered an error
StoreFailed ==
    \/ sn.lookup \in { "error", "unreachable" }
    \/ sn.create \in { "error", "unreachable" }
KnownMethods == { Str("initialize"), Str("tools/list"), Str("tools/call") }

\* C1, as claimed: a POST or GET presenting an identifier the caller's store
\* holds at the lookup is answered with that identifier, and the request
\* creates no session.
C1_HeldIdReused ==
    (rq.method \in { "POST", "GET" } /\ Resolved /\ rq.header.present /\ sn.held)
    => /\ sn.id = rq.header.v
       /\ sn.created = {}
       /\ pc = "rendered" => resp.session = Header(rq.header.v)

\* C1, amended: a POST or GET presenting an identifier the caller's store
\* holds, and whose lookup the store answers successfully, is answered with
\* that identifier, and the request creates no session.
C1_Continuity ==
    (rq.method \in { "POST", "GET" } /\ Resolved /\ rq.header.present /\ sn.held
        /\ sn.lookup = "ok")
    => /\ sn.id = rq.header.v
       /\ sn.minted = ""
       /\ sn.created = {}
       /\ pc = "rendered" => resp.session = Header(rq.header.v)

C1_Witness ==
    /\ pc = "rendered"
    /\ rq.method = "GET"
    /\ sn.held
    /\ sn.lookup = "ok"
    /\ resp.session = Header(rq.header.v)
    /\ sn.created = {}

\* C2, as claimed: a POST or GET presenting an identifier the caller's store
\* does not hold is answered with a freshly minted identifier different from
\* the presented one, and exactly one session, with that identifier, is
\* registered in the caller's namespace.
C2_UnknownIdRegistered ==
    (rq.method \in { "POST", "GET" } /\ Resolved /\ rq.header.present /\ ~sn.held)
    => /\ sn.id = sn.minted
       /\ sn.id \in Uuids
       /\ sn.id # rq.header.v
       /\ pc = "rendered" => resp.session = Header(sn.id)
       /\ Cardinality(sn.created) = 1
       /\ \A r \in sn.created : r.id = sn.id /\ r.userId = rq.user

\* C2, amended: such a request is answered with a freshly minted identifier
\* different from the presented one; when the registration call succeeds
\* exactly one session, with that identifier, is registered in the caller's
\* namespace, and when it fails none is.
C2_UnknownIdFallback ==
    (rq.method \in { "POST", "GET" } /\ Resolved /\ rq.header.present /\ ~sn.held)
    => /\ sn.id = sn.minted
       /\ sn.id \in Uuids
       /\ sn.id # rq.header.v
       /\ pc = "rendered" => resp.session = Header(sn.id)
       /\ Cardinality(sn.created) = (IF sn.create = "ok" THEN 1 ELSE 0)
       /\ \A r \in sn.created : r.id = sn.id /\ r.userId = rq.user

C2_Witness ==
    /\ pc = "rendered"
    /\ rq.method = "POST"
    /\ rq.header.present
    /\ rq.header.v \in Uuids
    /\ ~sn.held
    /\ sn.lookup = "notfound"
    /\ sn.create = "ok"
    /\ Cardinality(sn.created) = 1
    /\ resp.session = Header(sn.minted)

\* C3: a POST or GET during which a Session Store call threw or answered an
\* error is still answered with a rendered protocol response, never a fault,
\* carrying a freshly minted identifier; the identifier is not stored when the
\* registration failed.
C3_StoreFailureTolerated ==
    (rq.method \in { "POST", "GET" } /\ pc = "rendered" /\ StoreFailed)
    => /\ resp.kind \in { "json", "capabilities", "sse-stream" }
       /\ resp.status \in { 200, 202, 400 }
       /\ sn.minted \in Uuids
       /\ sn.minted # rq.header.v
       /\ resp.session = Header(sn.minted)
       /\ sn.create # "ok" => sn.created = {}

C3_Witness ==
    /\ pc = "rendered"
    /\ rq.method = "POST"
    /\ sn.lookup = "unreachable"
    /\ sn.create = "error"
    /\ resp.status = 202
    /\ resp.session = Header(sn.minted)
    /\ sn.minted \notin Held(storage[rq.user])

\* the envelope validation of the specification: an object whose version tag
\* is "2.0", whose method is a string and whose identifier is absent, a
\* string, a number or null
EnvelopeOk(body) ==
    /\ body.top.t = "object"
    /\ body.jsonrpc.t = "string" /\ body.jsonrpc.s = "2.0"
    /\ body.method.t = "string"
    /\ body.id.t \in { "undefined", "string", "number", "null" }

\* C4: a POST whose body parses as JSON and fails the envelope validation is
\* answered with the Invalid Request error (-32600) at status 400, and no
\* dispatcher handler is invoked.
C4_InvalidRequest ==
    (Posted /\ pc = "rendered" /\ rq.body.syntax = "json" /\ ~EnvelopeOk(rq.body))
    => /\ resp.status = 400
       /\ resp.env.hasError
       /\ resp.env.error.code = -32600
       /\ dp.calls = <<>>

\* C5, as claimed: the classifier's verdict is valid exactly when the version
\* tag is "2.0", the method is a non-empty string and the identifier is
\* absent, a string, a number or null.
C5_NonEmptyMethod ==
    (Posted /\ rq.body.syntax = "json")
    => (rq.valid <=> (EnvelopeOk(rq.body) /\ rq.body.method.s # ""))

\* C5, amended: the classifier's verdict is valid exactly when the version
\* tag is "2.0", the method is a string (the empty string included) and the
\* identifier is absent, a string, a number or null; classifying changes
\* nothing but the request's own course.
C5_Classifier ==
    /\ []((Posted /\ rq.body.syntax = "json") => (rq.valid <=> EnvelopeOk(rq.body)))
    /\ [][(pc = "resolved" /\ rq.method = "POST" /\ pc' # pc)
             => UNCHANGED << storage, now, minted, vectorize, d1, sn, dp >>]_vars

C5_Witness ==
    /\ Posted
    /\ rq.valid
    /\ rq.body.method = Str("")
    /\ rq.body.id = Null

\* C6: a POST whose body is not JSON is answered with the envelope
\* {jsonrpc "2.0", error {code -32700, message "Parse error"}, id null} at
\* status 400 under the resolved session identifier, and no dispatcher handler
\* is invoked.
C6_ParseError ==
    (Posted /\ pc = "rendered" /\ rq.body.syntax = "malformed")
    => /\ resp.status = 400
       /\ resp.kind = "json"
       /\ resp.env = ErrorEnvelope(RpcError(-32700, <<"Parse error">>), Null)
       /\ sn.id \in Uuids
       /\ resp.session = Header(sn.id)
       /\ dp.calls = <<>>

C6_Witness ==
    /\ Posted
    /\ pc = "rendered"
    /\ rq.body.syntax = "malformed"
    /\ resp.env.error.code = -32700

\* C7: the envelope answering a POST carries the request's identifier when
\* that is a string or a number (0 and "" included), and null when it is
\* absent or null.
C7_EchoedId ==
    (Posted /\ pc = "rendered" /\ rq.body.syntax = "json" /\ rq.body.top.t = "object"
        /\ rq.body.id.t \in { "undefined", "null", "string", "number" })
    => resp.env.id = (IF rq.body.id.t \in { "string", "number" } THEN rq.body.id ELSE Null)

\* the envelope the request in flight is answered with, once dispatched
Answered == IF pc = "negotiate" THEN dp.val ELSE resp.env

\* C8: the envelope answering a classifier-valid request for initialize,
\* tools/list or tools/call has exactly one of result and error.
C8_ResultXorError ==
    (Posted /\ pc \in { "negotiate", "rendered" } /\ rq.valid
        /\ rq.body.method \in KnownMethods)
    => (Answered.hasResult <=> ~Answered.hasError)

C8_Witness ==
    /\ Posted
    /\ pc = "rendered"
    /\ rq.valid
    /\ rq.body.method = Str("tools/call")
    /\ dp.failed
    /\ resp.env.hasResult
    /\ ~resp.env.hasError

\* C9: a POST the classifier accepts is answered with status 202 whatever the
\* dispatch gave, a POST rejected before dispatch with status 400, and both
\* carry the resolved session identifier.
C9_StatusByClassifier ==
    (Posted /\ pc = "rendered")
    => /\ resp.status = (IF rq.valid THEN 202 ELSE 400)
       /\ ~rq.valid => dp.calls = <<>>
       /\ sn.id \in Uuids
       /\ resp.session = Header(sn.id)

C9_Witness ==
    /\ Posted
    /\ pc = "rendered"
    /\ rq.valid
    /\ resp.status = 202
    /\ resp.env.hasError
    /\ resp.env.error.code = -32603

\* C10: when the vector write, the record write or the search throws inside
\* a tool, tools/call is answered with a result envelope whose Tool Result has
\* isError set and a text, and with no error member.
C10_ToolFailureIsResult ==
    (Posted /\ pc \in { "negotiate", "rendered" } /\ dp.failed)
    => /\ Answered.hasResult
       /\ ~Answered.hasError
       /\ Answered.result.kind = "toolResult"
       /\ Answered.result.isError
       /\ Len(Answered.result.text) > 0

C10_Witness ==
    /\ Posted
    /\ pc = "rendered"
    /\ dp.failed
    /\ dp.vec
    /\ ~dp.rec
    /\ resp.env.result.isError

\* a classifier-valid request that has been dispatched
Dispatched == Posted /\ rq.valid /\ pc \in { "negotiate", "rendered" }
\* the tool names the catalogue lists
Catalogue == handleToolsList(InitializeBody).result.tools
Listed(name) == name.t = "string" /\ \E t \in Catalogue : t.name = name.s
\* the requests on which a handler throws: tools/call whose params are absent
\* or null, or that names a listed tool and has no arguments mapping
HandlerThrows(body) ==
    /\ body.method = Str("tools/call")
    /\ \/ body.params.t \in { "undefined", "null" }
       \/ body.params.t = "object" /\ Listed(body.params.name)
            /\ body.params.args.t = "undefined"

\* C11: no classifier-valid request is answered with a Parse error or a
\* fault; when a handler throws during its dispatch the answer is the
\* Internal error envelope (-32603) whose data carries the failure detail, at
\* the status of a completed dispatch.
C11_InternalError ==
    Dispatched
    => /\ ~(Answered.hasError /\ Answered.error.code = -32700)
       /\ pc = "rendered" => resp.kind = "json" /\ resp.status = 202
       /\ HandlerThrows(rq.body)
            => /\ Answered.hasError
               /\ ~Answered.hasResult
               /\ Answered.error.code = -32603
               /\ Answered.error.message = <<"Internal error">>
               /\ Answered.error.data # ""
               /\ ~dp.vec /\ ~dp.rec

C11_Witness ==
    /\ Dispatched
    /\ pc = "rendered"
    /\ rq.body.params.t = "object"
    /\ rq.body.params.name = Str("addToMCPMemory")
    /\ rq.body.params.args.t = "undefined"
    /\ resp.env.error.code = -32603
    /\ resp.status = 202

\* C12: tools/call naming a tool the catalogue does not list is answered
\* with the error -32601 "Unknown tool: <name>", which is not the message of
\* an unknown method, under the request's identifier (null when it is absent
\* or null), and neither the vector store nor the record store is invoked.
C12_UnknownTool ==
    (Dispatched /\ rq.body.method = Str("tools/call") /\ rq.body.params.t = "object"
        /\ rq.body.params.name.t = "string" /\ ~Listed(rq.body.params.name))
    => /\ Answered.hasError
       /\ ~Answered.hasResult
       /\ Answered.error.code = -32601
       /\ Answered.error.message = <<"Unknown tool: ", rq.body.params.name.s>>
       /\ Answered.error.message # <<"Method not found">>
       /\ Answered.id = (IF rq.body.id.t \in { "string", "number" } THEN rq.body.id ELSE Null)
       /\ dp.calls = <<"processJsonRpcRequest", "handleToolCall">>
       /\ ~dp.vec /\ ~dp.rec /\ ~dp.failed

\* C13: a classifier-valid request whose method is none of initialize,
\* tools/list, tools/call is answered with the error -32601 "Method not
\* found"; no handler is entered and the tool backend is not invoked.
C13_MethodNotFound ==
    (Dispatched /\ rq.body.method \notin KnownMethods)
    => /\ Answered.hasError
       /\ ~Answered.hasResult
       /\ Answered.error.code = -32601
       /\ Answered.error.message = <<"Method not found">>
       /\ dp.calls = <<"processJsonRpcRequest">>
       /\ ~dp.vec /\ ~dp.rec /\ ~dp.failed

C13_Witness ==
    /\ Dispatched
    /\ pc = "rendered"
    /\ rq.body.method = Str("resources/list")
    /\ resp.env.error.code = -32601
    /\ resp.status = 202

\* C14: tools/call answers -32601 exactly for the tool names tools/list does
\* not list, and a call of a listed tool whose arguments carry the string the
\* tool's schema requires is answered with a result.
C14_CatalogueRoundTrip ==
    (Dispatched /\ rq.body.method = Str("tools/call") /\ rq.body.params.t = "object"
        /\ rq.body.params.name.t = "string")
    => /\ Listed(rq.body.params.name) <=> ~(Answered.hasError /\ Answered.error.code = -32601)
       /\ \A t \in Catalogue :
            (/\ t.name = rq.body.params.name.s
             /\ rq.body.params.args.t = "object"
             /\ rq.body.params.args[t.required].t = "string")
            => Answered.hasResult /\ ~Answered.hasError

C14_Witness ==
    /\ Dispatched
    /\ pc = "rendered"
    /\ rq.body.method = Str("tools/call")
    /\ rq.body.params.name = Str("searchMCPMemory")
    /\ rq.body.params.args.informationToGet = Str("m")
    /\ resp.env.hasResult
    /\ Cardinality(Catalogue) = 2

\* C15: whatever the Accept header of a classifier-valid POST (either media
\* type, both, another one, none), the dispatcher's answer is rendered as the
\* single JSON document of content type application/json, never as an
\* event-stream frame.
C15_JsonWhateverAccept ==
    /\ pc = "negotiate"
         => \A a \in Accepts :
               LET r == negotiate(a, rq.body, dp.val, sn.id)
               IN  r.kind = "json" /\ r.contentType = "application/json" /\ r.env = dp.val
    /\ (Dispatched /\ pc = "rendered")
         => /\ resp.kind = "json"
            /\ resp.contentType = "application/json"
            /\ resp.env = dp.val
            /\ resp.session = Header(sn.id)

C15_Witness ==
    /\ Dispatched
    /\ pc = "rendered"
    /\ rq.accept = "text/event-stream"
    /\ resp.kind = "json"
    /\ resp.contentType = "application/json"

\* C16: every response the entry point returns, whatever the HTTP method and
\* the outcome, carries the Mcp-Session-Id header holding the session
\* identifier resolved for the request.
C16_SessionHeaderAlways ==
    pc = "rendered"
    => /\ sn.id # ""
       /\ resp.session = Header(sn.id)

\* C17: within a request the Session Store is called only before the body is
\* read, classified or dispatched; the dispatcher runs, its backend round trip
\* included, only under a resolved session identifier and before any response
\* exists; a response is returned only after the session identifier is
\* resolved (the preflight resolves none) and, for a classifier-valid POST,
\* after the dispatcher has answered.
C17_StrictOrder ==
    /\ [](pc \in { "resolved", "dispatch", "negotiate" } => sn.id # "" /\ resp = NoResponse)
    /\ []((pc = "rendered" /\ rq.method # "OPTIONS") => sn.id # "")
    /\ []((pc = "rendered" /\ rq.valid) => dp.calls # <<>>)
    /\ [][(sn' # sn /\ pc' # "idle")
             => /\ pc \in { "getOrCreateSession", "mint" }
                /\ rq.body = NoRequest.body /\ ~rq.valid
                /\ dp = NoDispatch /\ dp' = dp
                /\ resp = NoResponse]_vars
    /\ [][(dp' # dp /\ pc' # "idle")
             => /\ pc = "dispatch"
                /\ rq.valid
                /\ sn.id # "" /\ sn' = sn /\ storage' = storage
                /\ resp = NoResponse /\ resp' = resp]_vars
    /\ [][(resp' # resp /\ pc' # "idle")
             => /\ pc' = "rendered"
                /\ sn' = sn /\ dp' = dp
                /\ UNCHANGED << storage, minted, vectorize, d1 >>
                /\ rq'.method # "OPTIONS" => sn.id # ""
                /\ rq'.valid => dp.calls # <<>>]_vars

C17_Witness ==
    /\ pc = "rendered"
    /\ rq.method = "POST"
    /\ rq.valid
    /\ sn.lookup = "notfound"
    /\ sn.create = "ok"
    /\ dp.calls = <<"processJsonRpcRequest", "handleInitialize">>
    /\ resp.status = 202
    /\ resp.session = Header(sn.id)

\* the step in which the lookup of a presented identifier is answered
Presented == pc = "getOrCreateSession" /\ pc' # pc /\ rq'.header.present

\* C18, as claimed: once a stored session's identifier is presented, its
\* stored last-activity is strictly greater than the value it had at creation.
C18_StrictlyGreater ==
    [][(Presented /\ StorageGet(storage[rq.user], rq'.header.v).present)
          => LET s == StorageGet(storage'[rq.user], rq'.header.v)
             IN  s.lastActivity > s.createdAt]_vars

\* C18, amended: when the lookup of a stored session succeeds, its stored
\* last-activity is the clock's reading at the lookup, never less than the
\* value it had, and greater than the value at creation exactly when the clock
\* has advanced since; a lookup the store does not complete leaves the
\* session as it was.
C18_ActivityRefreshed ==
    [][(Presented /\ StorageGet(storage[rq.user], rq'.header.v).present)
          => LET old == StorageGet(storage[rq.user], rq'.header.v)
                 s == StorageGet(storage'[rq.user], rq'.header.v)
             IN  IF sn'.lookup = "ok"
                 THEN /\ s = [old EXCEPT !.lastActivity = now]
                      /\ s.lastActivity >= old.lastActivity
                      /\ s.lastActivity >= s.createdAt
                      /\ s.lastActivity > s.createdAt <=> now > old.createdAt
                 ELSE storage' = storage]_vars

C18_Witness ==
    /\ pc = "resolved"
    /\ sn.lookup = "ok"
    /\ StorageGet(storage[rq.user], sn.id).present
    /\ StorageGet(storage[rq.user], sn.id).lastActivity = now
    /\ StorageGet(storage[rq.user], sn.id).lastActivity
          > StorageGet(storage[rq.user], sn.id).createdAt

\* a step keeps the identifier of every session it leaves in st and does not
\* lower its last-activity
Lasting(before, after) ==
    \A k \in DOMAIN before :
        (before[k].present /\ after[k].present)
        => /\ after[k].id = before[k].id
           /\ after[k].lastActivity >= before[k].lastActivity

\* C19: under every sequence of create, get, update, delete and sweep calls,
\* failing storage included, a stored session's identifier is the one it was
\* created under and never changes, and its last-activity never decreases as
\* long as the clock does not; this holds of the storage of both revisions
\* and, between two constructions, of the Map of the earlier one.
C19_IdAndActivity ==
    /\ [](\A u \in Users, k \in SessionIds :
            /\ storage[u][k].present
                 => storage[u][k].id = k /\ storage[u][k].lastActivity <= now
            /\ mirror.st[k].present
                 => mirror.st[k].id = k /\ mirror.st[k].lastActivity <= now)
    /\ [][now' >= now]_vars
    /\ [][/\ \A u \in Users : Lasting(storage[u], storage'[u])
          /\ Lasting(mirror.st, mirror'.st)
          /\ op'.path # "constructor"
               => \A k \in SessionIds :
                     (MapHas(mirror.sessions, k) /\ MapHas(mirror'.sessions, k))
                     => /\ MapGet(mirror'.sessions, k).id = k
                        /\ MapGet(mirror'.sessions, k).lastActivity
                              >= MapGet(mirror.sessions, k).lastActivity]_vars

C19_Witness ==
    /\ op.path = "/update"
    /\ op.status = 200
    /\ storage["alice"][UuidPool[1]].present
    /\ storage["alice"][UuidPool[1]].id = UuidPool[1]
    /\ storage["alice"][UuidPool[1]].createdAt = 0
    /\ storage["alice"][UuidPool[1]].lastActivity = maxAge + 1

\* C20: a successful update leaves the session's metadata holding every pair
\* of the patch, every pair it had under a key the patch does not name, and
\* nothing else; without a patch the metadata stays as it was; either way
\* last-activity is set to the clock's reading and nothing else changes, in
\* this session or in another.
C20_ShallowMerge ==
    [][(op'.path = "/update" /\ op'.status = 200 /\ now' = now)
          => LET old == storage["alice"][op'.sessionId]
                 new == storage'["alice"][op'.sessionId]
                 patch == op'.metadata
             IN  /\ old.present
                 /\ new = [old EXCEPT !.lastActivity = now, !.metadata = new.metadata]
                 /\ IF patch.t = "object"
                    THEN /\ \A e \in patch.m : e \in new.metadata
                         /\ \A e \in old.metadata :
                               e[1] \notin Keys(patch.m) => e \in new.metadata
                         /\ \A e \in new.metadata : e \in patch.m \/ e \in old.metadata
                         /\ Cardinality(Keys(new.metadata)) = Cardinality(new.metadata)
                    ELSE new.metadata = old.metadata
                 /\ \A k \in SessionIds \ { op'.sessionId } :
                       storage'["alice"][k] = storage["alice"][k]]_vars

C20_Witness ==
    /\ op.path = "/update"
    /\ op.status = 200
    /\ op.metadata = Patch({ <<"b", 1>> })
    /\ storage["alice"][UuidPool[1]].metadata = { <<"a", 2>>, <<"b", 1>> }
    /\ storage["alice"][UuidPool[1]].lastActivity = now

\* the step is a direct call of this route
Called(path) == op'.path = path /\ now' = now
\* the sessions of the Map, by identifier
Mapped(sessions) == { sessions[i].id : i \in 1..Len(sessions) }

\* C21: a sweep that completes removes the sessions idle for more than 24
\* hours and no other, a session idle for exactly 24 hours being kept, leaves
\* the kept ones as they were, and reports as removed and remaining counts
\* the number it removed and the number left, which add up to the number
\* there was; a sweep that a storage failure cuts short removes none but
\* sessions idle for more than 24 hours. The storage-only revision does so on
\* storage, the Map revision on its Map and, for the removals, on storage.
C21_SweepExact ==
    [][Called("/cleanup")
         => /\ op'.status # 0
                 => LET st == storage["alice"]
                        removed == Held(st) \ Held(storage'["alice"])
                    IN  /\ Held(storage'["alice"]) \subseteq Held(st)
                        /\ \A k \in Held(storage'["alice"]) : storage'["alice"][k] = st[k]
                        /\ \A k \in removed : now - st[k].lastActivity > 24 * 60 * 60 * 1000
                        /\ op'.status = 200
                             => /\ \A k \in Held(storage'["alice"]) :
                                      now - st[k].lastActivity <= 24 * 60 * 60 * 1000
                                /\ op'.cleaned = Cardinality(removed)
                                /\ op'.active = Cardinality(Held(storage'["alice"]))
                                /\ op'.cleaned + op'.active = Cardinality(Held(st))
            /\ op'.mapStatus # 0
                 => LET before == Mapped(mirror.sessions)
                        after == Mapped(mirror'.sessions)
                        removed == before \ after
                    IN  /\ after \subseteq before
                        /\ \A k \in after :
                              MapGet(mirror'.sessions, k) = MapGet(mirror.sessions, k)
                        /\ \A k \in removed :
                              now - MapGet(mirror.sessions, k).lastActivity
                                 > 24 * 60 * 60 * 1000
                        /\ \A k \in SessionIds \ removed : mirror'.st[k] = mirror.st[k]
                        /\ op'.mapStatus = 200
                             => /\ \A k \in after :
                                      now - MapGet(mirror.sessions, k).lastActivity
                                         <= 24 * 60 * 60 * 1000
                                /\ \A k \in removed : ~mirror'.st[k].present
                                /\ op'.mapCleaned = Cardinality(removed)
                                /\ op'.mapActive = Cardinality(after)
                                /\ op'.mapCleaned + op'.mapActive = Cardinality(before)]_vars

C21_Witness ==
    /\ op.path = "/cleanup"
    /\ op.status = 200
    /\ op.cleaned = 1
    /\ op.active = 1
    /\ now = maxAge + 1
    /\ \E k \in StoreKeys :
          storage["alice"][k].present /\ storage["alice"][k].lastActivity = maxAge

\* the step is a sweep that completes, made after a sweep that completed with
\* no call to the store in between
SweptTwice ==
    /\ op.path = "/cleanup" /\ op.status = 200
    /\ Called("/cleanup") /\ op'.status = 200

RouteMethod(path) ==
    CASE path = "/delete" -> "DELETE"
      [] path = "/cleanup" -> "GET"
      [] OTHER -> "POST"

\* the step is a get, update or delete for an identifier the store does not hold
CalledAbsent ==
    /\ \E path \in { "/get", "/update", "/delete" } : Called(path)
    /\ op'.status # 0
    /\ op'.sessionId \notin Held(storage["alice"])

\* C23: a get, update or delete for an identifier the store does not hold
\* answers 404 (500 when the storage read throws), stores no session and
\* leaves every stored session as it was; with a working storage the answer
\* is 404.
C23_AbsentNotFound ==
    [][CalledAbsent
         => LET st == storage["alice"]
                a == fetch(st, RouteMethod(op'.path), op'.path,
                           Call(op'.sessionId, "", op'.metadata), now, AllOps)
            IN  /\ storage' = storage
                /\ op'.status \in { 404, 500 }
                /\ a = Answer(FALSE, 404, st, 0, 0)]_vars

C23_Witness ==
    /\ op.path = "/update"
    /\ op.status = 404
    /\ op.metadata = Patch({ <<"b", 1>> })
    /\ op.sessionId \notin Held(storage["alice"])
    /\ "x1" \in Held(storage["alice"])

\* the request in flight presented an identifier its own namespace did not
\* hold when it was looked up
PresentedForeign ==
    /\ pc \in { "mint", "resolved", "dispatch", "negotiate", "rendered" }
    /\ rq.method # "OPTIONS"
    /\ rq.header.present /\ rq.header.v # ""
    /\ ~sn.held

\* C25: a session is held by one namespace at most; a request that presents
\* an identifier its own namespace does not hold, one held under another
\* namespace included, does not find it and is resolved with the identifier
\* just minted, which its POST and GET responses carry; and a request's steps
\* leave the storage of every namespace but its own as it was.
C25_NamespaceIsolation ==
    /\ [](\A u, v \in Users : u # v => Held(storage[u]) \cap Held(storage[v]) = {})
    /\ [](PresentedForeign
            => /\ sn.lookup # "ok"
               /\ Resolved /\ sn.lookup # "error" /\ sn.lookup # "unreachable"
                    => sn.lookup = "notfound"
               /\ Resolved /\ resp # Fault
                    => /\ sn.id = UuidPool[minted]
                       /\ sn.id = sn.minted
                       /\ sn.id # rq.header.v
               /\ pc = "rendered" /\ rq.method \in { "POST", "GET" } /\ resp # Fault
                    => resp.session = Header(UuidPool[minted]))
    /\ [][pc' # pc => \A u \in Users \ { rq.user } : storage'[u] = storage[u]]_vars

C25_Witness ==
    /\ pc = "rendered"
    /\ rq.user = "bob"
    /\ rq.method = "GET"
    /\ rq.header.v \in Held(storage["alice"])
    /\ sn.lookup = "notfound"
    /\ resp.session = Header(sn.minted)
    /\ sn.minted \in Held(storage["bob"])

\* a step of the request in flight
RequestStep == pc' # pc

\* C26: an OPTIONS request is answered at once with status 204, an empty body
\* and no session header; from its arrival to its completion it makes no
\* lookup and no create, and its steps leave every store and the clock as
\* they were, whatever Mcp-Session-Id it carries.
C26_PreflightStoreFree ==
    /\ [](rq.method = "OPTIONS"
            => /\ pc = "rendered"
               /\ resp = Response(204, "", NoHeader, "empty", NoEnvelope, <<>>)
               /\ sn = NoResolution
               /\ dp = NoDispatch)
    /\ [][RequestStep /\ (rq.method = "OPTIONS" \/ rq'.method = "OPTIONS")
            => /\ UNCHANGED << storage, now, minted, vectorize, d1 >>
               /\ pc' \in { "rendered", "idle" }]_vars

C26_Witness ==
    /\ pc = "rendered"
    /\ rq.method = "OPTIONS"
    /\ rq.user = "alice"
    /\ resp.status = 204
    /\ Held(storage["alice"]) # {}

\* C27: a GET without the capability marker is answered with a 200
\* text/event-stream response on which one notification is enqueued, carrying
\* the session identifier the response's Mcp-Session-Id header carries, the
\* one resolved for the request; nothing is added to the stream afterwards;
\* a GET with the marker is answered with the capability document and no
\* stream.
C27_StreamAnnouncesOnce ==
    /\ [](pc = "rendered" /\ rq.method = "GET" /\ resp # Fault
            => IF rq.capabilities
               THEN /\ resp.kind = "capabilities"
                    /\ resp.contentType = "application/json"
                    /\ resp.events = <<>>
               ELSE /\ resp.kind = "sse-stream"
                    /\ resp.status = 200
                    /\ resp.contentType = "text/event-stream"
                    /\ Len(resp.events) = 1
                    /\ resp.events[1].method = "notifications/initialized"
                    /\ resp.events[1].sessionId = sn.id
                    /\ resp.session = Header(sn.id))
    /\ [][pc = "rendered" /\ pc' = "rendered" => resp' = resp]_vars

C27_Witness ==
    /\ pc = "rendered"
    /\ rq.method = "GET"
    /\ ~rq.capabilities
    /\ resp.kind = "sse-stream"
    /\ sn.lookup = "ok"
    /\ resp.events[1].sessionId = rq.header.v

\* the step looks up a presented identifier whose session has been idle for
\* longer than 24 hours and is still stored
PresentedExpired ==
    /\ Presented
    /\ rq'.header.v \in Expired(storage[rq.user], now)

\* C29: a stored session idle for longer than 24 hours is never reported as
\* not found by the lookup of a request; with a working store get answers 200
\* and the lookup finds it; when the lookup succeeds the presented identifier
\* is the request's session identifier, no identifier is minted, the stored
\* last-activity is the clock's reading, and a sweep run then keeps the
\* session.
C29_ExpiryOnlyBySweep ==
    [][PresentedExpired
         => LET st == storage[rq.user]
                k == rq'.header.v
            IN  /\ sn'.lookup # "notfound"
                /\ getSession(st, k, now, AllOps).status = 200
                /\ lookupSession(st, rq'.header, now, NoFailure).found
                /\ sn'.lookup = "ok"
                     => /\ pc' = "resolved"
                        /\ sn'.id = k
                        /\ minted' = minted
                        /\ storage'[rq.user][k].lastActivity = now
                        /\ k \in Held(cleanupSessions(storage'[rq.user], now, AllOps).st)
                        /\ cleanupSessions(storage'[rq.user], now, AllOps).status = 200]_vars

C29_Witness ==
    /\ pc = "resolved"
    /\ sn.lookup = "ok"
    /\ sn.id = rq.header.v
    /\ now = maxAge + 1
    /\ StorageGet(storage[rq.user], sn.id).createdAt = 0
    /\ StorageGet(storage[rq.user], sn.id).lastActivity = now
    /\ Expired(storage[rq.user], now) = {}

\* C28: where the sweep keeps being invoked, a stored session idle for longer
\* than 24 hours does not stay so: it is removed unless a get or an update
\* refreshes it first; a session leaves the store only in a delete call for
\* it or in a sweep that finds it idle for longer than 24 hours, so the
\* passing of time alone removes none; and one that has left is stored again
\* only by a create call for its identifier.
C28_ExpiryLiveness ==
    /\ \A k \in StoreKeys :
          (k \in Expired(storage["alice"], now)) ~> (k \notin Expired(storage["alice"], now))
    /\ [][\A k \in StoreKeys :
            /\ (k \in Held(storage["alice"]) /\ k \notin Held(storage'["alice"]))
                 => \/ Called("/delete") /\ op'.sessionId = k
                    \/ Called("/cleanup") /\ k \in Expired(storage["alice"], now)
            /\ (k \notin Held(storage["alice"]) /\ k \in Held(storage'["alice"]))
                 => Called("/create") /\ op'.sessionId = k
            /\ (k \in Expired(storage["alice"], now) /\ k \notin Expired(storage'["alice"], now'))
                 => \/ Called("/delete") \/ Called("/cleanup") \/ Called("/create")
                    \/ (Called("/get") \/ Called("/update")) /\ op'.sessionId = k]_vars

C28_Witness ==
    /\ op.path = "/cleanup"
    /\ op.status = 200
    /\ op.cleaned = 2
    /\ op.at = maxAge + 1
    /\ now = maxAge + 1
    /\ Held(storage["alice"]) = {}

\* the sessions a storage holds and the sessions a Map holds, by identifier
Stored(st) == { st[k] : k \in Held(st) }
InMap(sessions) == { sessions[i] : i \in 1..Len(sessions) }

\* C30: after every call answered by both revisions from the same durable
\* storage, the two have returned the same status and counts and left the
\* same durable storage, and the Map of the earlier revision holds the
\* sessions of its durable storage, a call whose write failed included.
C30_RevisionsEquivalent ==
    (op.status # 0 /\ op.mapStatus # 0)
      => /\ op.mapStatus = op.status
         /\ op.mapCleaned = op.cleaned
         /\ op.mapActive = op.active
         /\ mirror.st = storage["alice"]
         /\ InMap(mirror.sessions) = Stored(mirror.st)

\* the calls answered, and the orders they can be put in
DoneSlots == { slot \in Slots : calls[slot].phase = "done" }
Quiescent ==
    /\ \A slot \in Slots : calls[slot].phase \in { "none", "done" }
    /\ DoneSlots # {}
Orders(S) ==
    { o \in [1..Cardinality(S) -> S] : \A i, j \in DOMAIN o : i # j => o[i] # o[j] }

\* the same calls made one after another in the order o from the storage st,
\* each with the clock reading it made: the storage they leave, and whether
\* each is answered as it was
RECURSIVE SerialRun(_, _)
SerialRun(st, o) ==
    IF o = << >>
    THEN [st |-> st, same |-> TRUE]
    ELSE LET c == calls[Head(o)]
             r == fetch(st, RouteMethod(c.path), c.path,
                        Call(c.sessionId, "alice", IF c.path = "/create" THEN {} ELSE c.metadata),
                        c.at, AllOps)
             rest == SerialRun(r.st, Tail(o))
         IN  [st |-> rest.st,
              same |-> /\ rest.same
                       /\ r.status = c.status
                       /\ r.cleaned = c.cleaned
                       /\ r.active = c.active]

\* C24: with the Durable Object's input gate, once the calls in flight
\* together on one SessionManager have all been answered, the storage and
\* every answer are those of the same calls made one after another in some
\* order from the storage they started from; two updates of one session
\* both answered 200 leave the keys of both patches in its metadata when it is
\* still stored and no create was among the calls; and no two calls are ever
\* inside a storage operation at once.
C24_Serializable ==
    /\ \A s, t \in Slots : (Busy(calls[s]) /\ Busy(calls[t])) => s = t
    /\ Quiescent
         => /\ \E o \in Orders(DoneSlots) :
                  LET run == SerialRun(base, o)
                  IN  run.same /\ run.st = storage["alice"]
            /\ \A s, t \in DoneSlots :
                  (/\ s # t
                   /\ calls[s].path = "/update" /\ calls[t].path = "/update"
                   /\ calls[s].status = 200 /\ calls[t].status = 200
                   /\ calls[s].sessionId = calls[t].sessionId
                   /\ calls[s].sessionId \in Held(storage["alice"])
                   /\ \A u \in DoneSlots : calls[u].path # "/create")
                    => Keys(calls[s].metadata.m) \cup Keys(calls[t].metadata.m)
                          \subseteq Keys(storage["alice"][calls[s].sessionId].metadata)

C24_Witness ==
    /\ Quiescent
    /\ \A slot \in { 1, 2 } :
          /\ calls[slot].path = "/update"
          /\ calls[slot].status = 200
          /\ calls[slot].concurrent \/ slot = 1
    /\ calls[2].concurrent
    /\ calls[1].metadata = Patch({ <<"a", 1>> })
    /\ calls[2].metadata = Patch({ <<"b", 1>> })
    /\ base[UuidPool[1]].metadata = {}
    /\ storage["alice"][UuidPool[1]].metadata = { <<"a", 1>>, <<"b", 1>> }

\* the request in flight has a method the switch has no case for
Unsupported(method) == method \notin { "", "OPTIONS", "POST", "GET" }

\* C31: a request whose method is none of OPTIONS, POST, GET is answered 405
\* and only after its session was resolved: the lookup ran, and unless it
\* found the presented identifier a create call was made for a minted one;
\* a create the store completes stores a session of the caller under the
\* minted identifier, created and last active at the clock's reading; a
\* lookup the store completes for a stored identifier sets that session's
\* last-activity to the clock's reading and mints nothing.
C31_RejectedAfterResolution ==
    /\ []((pc = "rendered" /\ Unsupported(rq.method))
            => /\ resp = Response(405, "text/plain", NoHeader, "text", NoEnvelope, <<>>)
               /\ sn.lookup # "none"
               /\ dp = NoDispatch
               /\ IF sn.lookup = "ok"
                  THEN sn.held /\ sn.id = rq.header.v /\ sn.create = "none" /\ sn.created = {}
                  ELSE /\ sn.create # "none"
                       /\ sn.id = sn.minted
                       /\ sn.create = "ok"
                            => \E s \in sn.created :
                                  /\ s.id = sn.minted
                                  /\ s.userId = rq.user
                                  /\ s.lastActivity = s.createdAt)
    /\ [][(Unsupported(rq.method) /\ pc = "mint" /\ pc' # pc /\ sn'.create = "ok")
            => storage'[rq.user][sn'.minted]
                  = SessionData(sn'.minted, rq.user, now, now, {})]_vars
    /\ [][(Unsupported(rq.method) /\ Presented /\ sn'.lookup = "ok")
            => LET old == StorageGet(storage[rq.user], rq'.header.v)
               IN  /\ old.present
                   /\ storage'[rq.user][rq'.header.v] = [old EXCEPT !.lastActivity = now]
                   /\ pc' = "resolved"]_vars

C31_Witness ==
    /\ pc = "rendered"
    /\ rq.method = "PUT"
    /\ resp.status = 405
    /\ ~rq.header.present
    /\ sn.create = "ok"
    /\ sn.minted \in Held(storage[rq.user])

\* the functions a dispatch entered
Entered(name, did) == \E i \in DOMAIN did.calls : did.calls[i] = name
EnteredBefore(first, second, did) ==
    \A j \in DOMAIN did.calls :
       did.calls[j] = second => \E i \in 1..(j - 1) : did.calls[i] = first

\* the step is the dispatch of a tools/call that enters addToMCPMemory
Remembering == pc = "dispatch" /\ pc' # pc /\ Entered("addToMCPMemory", dp')

\* C32: addToMCPMemory enters storeMemory first and storeMemoryInD1 only
\* after the vector write went through, and the record is written under the
\* identifier that write returned; when the vector write throws neither store
\* changes and the record write is not attempted; when the record write throws
\* the vector entry stays and no record is written; in both failures the Tool
\* Result has isError set, and nothing already stored is taken back.
C32_WritesInOrder ==
    [][Remembering
         => LET newVectors == vectorize' \ vectorize
                newRecords == d1' \ d1
            IN  /\ Entered("storeMemory", dp')
                /\ EnteredBefore("storeMemory", "storeMemoryInD1", dp')
                /\ Entered("storeMemoryInD1", dp') <=> dp'.vec
                /\ vectorize \subseteq vectorize' /\ d1 \subseteq d1'
                /\ newRecords \subseteq newVectors
                /\ IF ~dp'.vec
                   THEN /\ newVectors = {} /\ newRecords = {}
                        /\ dp'.failed /\ ~dp'.rec
                   ELSE /\ Cardinality(newVectors) = 1
                        /\ IF dp'.rec
                           THEN newRecords = newVectors /\ ~dp'.failed
                           ELSE newRecords = {} /\ dp'.failed
                /\ ~dp'.threw
                /\ dp'.val.hasResult
                /\ dp'.val.result.isError <=> dp'.failed]_vars

C32_Witness ==
    /\ pc = "negotiate"
    /\ Entered("storeMemoryInD1", dp)
    /\ dp.vec /\ ~dp.rec
    /\ vectorize = { 1 }
    /\ d1 = {}
    /\ dp.val.result.isError

====
